---- MODULE Spec2Model ----
(***************************************************************************)
(* workty: worktree enumeration, status aggregation and the clean / sync   *)
(* maintenance commands, as state machines over a small git repository.    *)
(*                                                                         *)
(* The repository on disk is the environment: a commit graph, the refs,    *)
(* the main checkout and the linked worktrees.  The commands read it       *)
(* through list_worktrees / get_all_statuses / is_merged and change it     *)
(* only through git subprocesses, every one of which is recorded in log.   *)
(* Paths are sequences of segments and are symlink-free, so canonicalize   *)
(* of an existing path returns the path itself.                            *)
(***************************************************************************)
EXTENDS Integers, Sequences, FiniteSets, TLC

\* ------------------------------------------------------------- bounds
MaxLinked == 3
MaxSyncLinked == 2
NCommits == 4
MaxBehind == 2
StaleChoice == 5
MaxSlugLen == 4

\* Seconds in a day: (days as i64) * 24 * 60 * 60.
SecondsPerDay == 86400

VARIABLES
  parents,              \* disk: commit graph, commit -> set of parent commits
  refs,                 \* disk: ref name -> Option(commit)
  linked,               \* disk: the linked worktrees, in administrative order
  mainw,                \* disk: the main checkout
  cwd,                  \* the directory the process was started in
  tty,                  \* stdin is a terminal
  opts,                 \* the running command's options
  pc,                   \* position inside the running command
  result,               \* "running", "ok" (Ok(())) or "err" (Err(_))
  log,                  \* every git subprocess issued so far, in order
  worktrees,            \* execute: let worktrees = list_worktrees(repo)?
  statuses,             \* execute: let statuses = ...
  candidates,           \* clean: candidates
  candidates_with_dirty,\* clean: candidates_with_dirty
  clean_candidates,     \* clean: clean_candidates
  gate,                 \* clean: how the confirmation gate was passed
  removed,              \* clean: removed
  idx,                  \* position of the sequential loop (clean and sync)
  synced,               \* sync: the worktrees counted in synced
  skipped_dirty,        \* sync: the worktrees counted in skipped_dirty
  skipped_no_upstream,  \* sync: the worktrees counted in skipped_no_upstream
  failed,               \* sync: the worktrees counted in failed
  refs0,                \* the branch pointers when the command started
  prev,                 \* outcome of the previous invocation, if any
  merged_call,          \* is_merged: the last call and its result
  agg,                  \* get_all_statuses: the parallel map in progress
  arg,                  \* the argument of the call (of a command: its name)
  ret,                  \* what the call returned
  children              \* the git subprocesses that are running

envVars == <<parents, refs, linked, mainw, cwd, tty>>
runVars == <<opts, pc, result, log, worktrees, statuses, refs0, prev>>
cleanVars == <<candidates, candidates_with_dirty, clean_candidates, gate, removed>>
syncVars == <<synced, skipped_dirty, skipped_no_upstream, failed>>
vars == <<envVars, runVars, cleanVars, syncVars, idx, merged_call, agg, arg, ret, children>>

\* ------------------------------------------------------------ Option
None == {}
Some(v) == {v}
IsSome(o) == o # {}
Unwrap(o) == CHOOSE v \in o : TRUE
\* Option::unwrap_or
unwrap_or(o, d) == IF o = {} THEN d ELSE Unwrap(o)

\* ------------------------------------------------------------- paths
\* Path::parent: None for the empty path.
Parent(p) == IF Len(p) = 0 THEN None ELSE Some(SubSeq(p, 1, Len(p) - 1))

MainPath == <<"repo">>
WtNames == <<"w1", "w2", "w3", "w4">>
LinkedPath(n) == <<"wt", n>>
\* The .git directory of the main checkout, and the per-worktree
\* administrative directory .git/worktrees/<name> of a linked one.
MainGitDir == MainPath \o <<".git">>
LinkedGitDir(n) == MainGitDir \o <<"worktrees", n>>

\* Config::base, and the branch a linked worktree was created for.
Base == "main"
FeatBranch(n) == "feat-" \o n
\* format!("origin/{}", base)
RemoteBase(base) == "origin/" \o base

\* ------------------------------------------------------- commit graph
Commits == 1 .. NCommits

RECURSIVE Ancestors(_)
Ancestors(c) ==
  parents[c] \cup UNION { Ancestors(p) : p \in parents[c] }

\* git2 Repository::graph_descendant_of(commit, ancestor): a commit is not
\* a descendant of itself.
graph_descendant_of(commit, ancestor) ==
  commit # ancestor /\ ancestor \in Ancestors(commit)

\* git2 Repository::revparse_single(name), Ok(obj) as Some(obj.id()).
revparse_single(name) ==
  IF name \in DOMAIN refs THEN refs[name] ELSE None

\* is_merged with the two arguments of the descendant test exchanged: it
\* asks whether the base is an ancestor of the branch tip.
is_merged_swapped(branch, base) ==
  LET branch_oid == revparse_single(branch)
      base_obj == revparse_single(base)
      remote_base_obj == revparse_single(RemoteBase(base))
  IN  IF branch_oid = None THEN FALSE
      ELSE IF base_obj # None
              /\ graph_descendant_of(Unwrap(branch_oid), Unwrap(base_obj))
      THEN TRUE
      ELSE IF remote_base_obj # None
              /\ graph_descendant_of(Unwrap(branch_oid), Unwrap(remote_base_obj))
      THEN TRUE
      ELSE FALSE

\* GitRepo::is_merged(branch, base); the Result is always Ok, so the
\* operator is its boolean.
is_merged(branch, base) ==
  LET branch_oid == revparse_single(branch)
      base_obj == revparse_single(base)
      remote_base_obj == revparse_single(RemoteBase(base))
  IN  IF branch_oid = None THEN FALSE
      ELSE IF base_obj # None
              /\ graph_descendant_of(Unwrap(base_obj), Unwrap(branch_oid))
      THEN TRUE
      ELSE IF remote_base_obj # None
              /\ graph_descendant_of(Unwrap(remote_base_obj), Unwrap(branch_oid))
      THEN TRUE
      ELSE FALSE

\* ------------------------------------------------- the worktrees on disk
\* One checkout as it is on disk:
\*   path, name      where it lives, and its administrative name
\*   head            "branch", "detached", "broken" (the checkout is
\*                   missing or cannot be opened) or "nolookup" (its
\*                   administrative entry cannot be looked up)
\*   branch          the checked-out branch when head = "branch"
\*   up              upstream of that branch: "none" (not configured),
\*                   "gone" (configured, resolves to no commit),
\*                   "nograph" (the distance to it cannot be computed), "ok"
\*   ahead, behind   graph distance to the upstream when up = "ok"
\*   age             Option: seconds since the HEAD commit
\*   dirty           the working tree has uncommitted changes
\*   mid             a rebase is in progress (HEAD is detached meanwhile)
AllFacts == << mainw >> \o linked
FactsAt(path) == CHOOSE f \in { AllFacts[i] : i \in DOMAIN AllFacts } : f.path = path
Exists(path) ==
  \E i \in DOMAIN AllFacts : AllFacts[i].path = path /\ AllFacts[i].head # "broken"

\* Path::canonicalize().ok()
canonicalize(path) == IF Exists(path) THEN Some(path) ELSE None

\* worktree.rs check_same_path
check_same_path(p1, p2) == canonicalize(p1) = canonicalize(p2)

IsPrefix(p, q) == Len(p) <= Len(q) /\ SubSeq(q, 1, Len(p)) = p

\* GitRepo::discover(None): git2 finds the checkout that holds the current
\* directory; root is its working directory and common_dir is
\* Repository::path(), which for a linked worktree is .git/worktrees/<name>.
discover(start) ==
  LET here == CHOOSE f \in { AllFacts[i] : i \in DOMAIN AllFacts } :
                 IsPrefix(f.path, start)
      is_wt == here.path # MainPath
      path == IF is_wt THEN LinkedGitDir(here.name) ELSE MainGitDir
  IN  [ root |-> here.path, common_dir |-> path, is_worktree |-> is_wt ]

\* The GitRepo the command runs with.
Repo == discover(cwd)

\* Worktree::is_main_worktree comparing with the parent of the directory
\* all the checkouts share (two levels above a linked worktree's own).
is_main_worktree_shared_dir(wt, repo) ==
  LET shared == IF repo.is_worktree
                THEN Unwrap(Parent(Unwrap(Parent(repo.common_dir))))
                ELSE repo.common_dir
  IN  \/ Parent(shared) = Some(wt.path)
      \/ check_same_path(wt.path, repo.root)

\* Worktree::is_main_worktree
is_main_worktree(wt, repo) ==
  \/ Parent(repo.common_dir) = Some(wt.path)
  \/ check_same_path(wt.path, repo.root)

\* worktree.rs get_repo_head_info, as (branch_short, detached).
get_repo_head_info(f) ==
  IF f.head = "detached" \/ f.mid
  THEN [ branch_short |-> None, detached |-> TRUE ]
  ELSE [ branch_short |-> Some(f.branch), detached |-> FALSE ]

\* A Worktree value (head, branch and locked are not read by clean or sync).
MkWorktree(path, info, prunable) ==
  [ path |-> path, branch_short |-> info.branch_short,
    detached |-> info.detached, prunable |-> prunable ]

Stub == [ branch_short |-> None, detached |-> FALSE ]

RECURSIVE LinkedEntries(_)
LinkedEntries(fs) ==
  IF fs = << >> THEN << >>
  ELSE LET f == Head(fs)
           wt == IF f.head = "broken"
                 THEN MkWorktree(f.path, Stub, TRUE)
                 ELSE MkWorktree(f.path, get_repo_head_info(f), FALSE)
       IN  << wt >> \o LinkedEntries(Tail(fs))

\* worktree.rs list_worktrees: the linked worktrees in administrative
\* order, then the main checkout unless its path is already listed.
list_worktrees(repo) ==
  LET entries == LinkedEntries(linked)
      git_path == repo.common_dir
      common_dir == IF repo.is_worktree
                    THEN unwrap_or(Parent(unwrap_or(Parent(git_path), git_path)), git_path)
                    ELSE git_path
      main_path == unwrap_or(Parent(common_dir), common_dir)
  IN  IF Exists(main_path)
         /\ ~ \E i \in DOMAIN entries : check_same_path(entries[i].path, main_path)
      THEN entries \o << MkWorktree(main_path, get_repo_head_info(FactsAt(main_path)), FALSE) >>
      ELSE entries

\* git2 Repository::find_worktree(name)
find_worktree_ok(f) == f.head # "nolookup"

\* worktree.rs list_worktrees as a Result: `find_worktree(name)?` returns
\* the error of the first linked worktree whose administrative entry
\* cannot be looked up; otherwise the list above.
list_worktrees_result(repo) ==
  IF \E i \in DOMAIN linked : ~ find_worktree_ok(linked[i])
  THEN [ ok |-> FALSE, value |-> << >> ]
  ELSE [ ok |-> TRUE, value |-> list_worktrees(repo) ]

\* ------------------------------------------------------------ statuses
\* WorktreeStatus::default()
DefaultStatus ==
  [ dirty_count |-> 0, upstream |-> None, ahead |-> None, behind |-> None,
    last_commit_time |-> None, behind_main |-> None, untracked_commits |-> None,
    upstream_gone |-> FALSE ]

\* status.rs get_ahead_behind with (Some(0), Some(0)) for an upstream that
\* is gone.
get_ahead_behind_gone_zero(f, worktree) ==
  LET absent == [ upstream |-> None, ahead |-> None, behind |-> None, gone |-> FALSE ]
      upstream_name == Some(RemoteBase(f.branch))
  IN  IF worktree.detached THEN absent
      ELSE IF f.head # "branch" \/ f.mid THEN absent
      ELSE IF f.up = "none" THEN absent
      ELSE IF f.up \in { "gone", "nograph" }
      THEN [ upstream |-> upstream_name, ahead |-> Some(0), behind |-> Some(0),
             gone |-> TRUE ]
      ELSE [ upstream |-> upstream_name, ahead |-> Some(f.ahead),
             behind |-> Some(f.behind), gone |-> FALSE ]

\* status.rs get_ahead_behind, as a record of its four results.
get_ahead_behind(f, worktree) ==
  LET absent == [ upstream |-> None, ahead |-> None, behind |-> None, gone |-> FALSE ]
      upstream_name == Some(RemoteBase(f.branch))
  IN  IF worktree.detached THEN absent
      ELSE IF f.head # "branch" \/ f.mid THEN absent
      ELSE IF f.up = "none" THEN absent
      ELSE IF f.up \in { "gone", "nograph" }
      THEN [ upstream |-> upstream_name, ahead |-> None, behind |-> None, gone |-> TRUE ]
      ELSE [ upstream |-> upstream_name, ahead |-> Some(f.ahead),
             behind |-> Some(f.behind), gone |-> FALSE ]

\* status.rs get_dirty_count (one entry stands for any number of them)
get_dirty_count(f) == IF f.dirty THEN 1 ELSE 0

\* status.rs get_main_branch_oid: the target of refs/remotes/origin/main.
get_main_branch_oid == revparse_single(RemoteBase("main"))

\* wt_repo.head().ok().and_then(|h| h.target()): the commit HEAD is at,
\* which the refs keep under the checkout's branch name.
head_oid(f) == revparse_single(f.branch)

\* git2 Repository::graph_ahead_behind(local, upstream)
Reach(c) == { c } \cup Ancestors(c)
graph_ahead_behind(local, upstream) ==
  [ ahead |-> Cardinality(Reach(local) \ Reach(upstream)),
    behind |-> Cardinality(Reach(upstream) \ Reach(local)) ]

\* status.rs get_worktree_status_full answering for a worktree that cannot
\* be opened from what its administrative entry says.
get_worktree_status_full_from_entry(worktree) ==
  LET g == FactsAt(worktree.path)
      gab == get_ahead_behind([ g EXCEPT !.head = "branch" ], worktree)
  IN
  IF ~ Exists(worktree.path)
  THEN [ DefaultStatus EXCEPT !.upstream = gab.upstream, !.ahead = gab.ahead,
                              !.behind = gab.behind, !.last_commit_time = g.age,
                              !.upstream_gone = gab.gone ]
  ELSE LET f == FactsAt(worktree.path)
           ab == get_ahead_behind(f, worktree)
           main_oid == get_main_branch_oid
           to_main == graph_ahead_behind(Unwrap(head_oid(f)), Unwrap(main_oid))
           known == main_oid # None /\ head_oid(f) # None
       IN  [ dirty_count |-> get_dirty_count(f), upstream |-> ab.upstream,
             ahead |-> ab.ahead, behind |-> ab.behind,
             last_commit_time |-> f.age,
             behind_main |-> IF known THEN Some(to_main.behind) ELSE None,
             untracked_commits |->
               IF known /\ ab.upstream = None /\ ~ worktree.detached
               THEN Some(to_main.ahead) ELSE None,
             upstream_gone |-> ab.gone ]

\* status.rs get_worktree_status_full
get_worktree_status_full(worktree) ==
  IF ~ Exists(worktree.path) THEN DefaultStatus
  ELSE LET f == FactsAt(worktree.path)
           ab == get_ahead_behind(f, worktree)
           main_oid == get_main_branch_oid
           to_main == graph_ahead_behind(Unwrap(head_oid(f)), Unwrap(main_oid))
           known == main_oid # None /\ head_oid(f) # None
       IN  [ dirty_count |-> get_dirty_count(f), upstream |-> ab.upstream,
             ahead |-> ab.ahead, behind |-> ab.behind,
             last_commit_time |-> f.age,
             behind_main |-> IF known THEN Some(to_main.behind) ELSE None,
             untracked_commits |->
               IF known /\ ab.upstream = None /\ ~ worktree.detached
               THEN Some(to_main.ahead) ELSE None,
             upstream_gone |-> ab.gone ]

\* status.rs get_all_statuses: one (worktree, status) pair per input, in
\* input order.
get_all_statuses(wts) ==
  [ i \in DOMAIN wts |-> << wts[i], get_worktree_status_full(wts[i]) >> ]

\* status.rs is_worktree_dirty
is_worktree_dirty(worktree) ==
  IF Exists(worktree.path) THEN get_dirty_count(FactsAt(worktree.path)) > 0 ELSE FALSE

\* Worktree::name (every path of the model has a final segment)
name(wt) ==
  IF wt.branch_short # None THEN Unwrap(wt.branch_short) ELSE wt.path[Len(wt.path)]

\* ------------------------------------------------------- initial states
\* A checkout on its own feature branch, with nothing else to report.
PlainFacts(path, n, branch) ==
  [ path |-> path, name |-> n, head |-> "branch", branch |-> branch,
    up |-> "none", ahead |-> 0, behind |-> 0, age |-> Some(0),
    dirty |-> FALSE, mid |-> FALSE ]

NoOpts ==
  [ merged |-> FALSE, gone |-> FALSE, stale_days |-> None,
    dry_run |-> FALSE, yes |-> FALSE, fetch |-> FALSE ]

NoCall == [ done |-> FALSE, branch |-> "", base |-> "", result |-> FALSE ]
NoRun == [ ran |-> FALSE ]
NoAgg == [ slots |-> << >>, finished |-> << >> ]

\* Everything a command or a call computes, before it has run.
IdleCall ==
  /\ result = "running"
  /\ log = << >>
  /\ worktrees = << >>
  /\ statuses = None
  /\ candidates = << >>
  /\ candidates_with_dirty = << >>
  /\ clean_candidates = << >>
  /\ gate = "none"
  /\ removed = 0
  /\ idx = 1
  /\ synced = << >>
  /\ skipped_dirty = << >>
  /\ skipped_no_upstream = << >>
  /\ failed = << >>
  /\ refs0 = refs
  /\ prev = NoRun
  /\ merged_call = NoCall
  /\ agg = NoAgg
  /\ ret = None
  /\ children = {}

\* A command that takes no argument besides its options.
IdleRun == IdleCall /\ arg = None

\* Commit graphs: the parents of a commit are older (lower-numbered) commits.
Graphs == { g \in [ Commits -> SUBSET Commits ] : \A c \in Commits : g[c] \subseteq 1 .. (c - 1) }
OptCommit == { None } \cup { Some(c) : c \in Commits }

\* ----------------------------------------------------------- is_merged
\* is_merged applied to every small commit graph and every resolution of
\* the branch, the local base and origin/<base>.
InitMerged ==
  /\ parents \in Graphs
  /\ refs \in [ { Base, RemoteBase(Base), FeatBranch("w1") } -> OptCommit ]
  /\ linked = << >>
  /\ mainw = PlainFacts(MainPath, "", Base)
  /\ cwd = MainPath
  /\ tty = FALSE
  /\ opts = NoOpts
  /\ pc = "is_merged"
  /\ IdleRun

IsMergedCall ==
  /\ pc = "is_merged"
  /\ merged_call' = [ done |-> TRUE, branch |-> FeatBranch("w1"), base |-> Base,
                      result |-> is_merged(FeatBranch("w1"), Base) ]
  /\ pc' = "done"
  /\ result' = "ok"
  /\ UNCHANGED <<envVars, opts, log, worktrees, statuses, refs0, prev, cleanVars, syncVars,
                 idx, agg, arg, ret, children>>

NextMerged == IsMergedCall

SpecMerged == InitMerged /\ [][NextMerged]_vars

\* Reachability over parent edges, by iteration to a fixpoint.
RECURSIVE ClosureUp(_, _)
ClosureUp(S, k) ==
  IF k = 0 THEN S ELSE ClosureUp(S \cup UNION { parents[c] : c \in S }, k - 1)
\* a is reachable from d over one or more parent edges, and is another commit
ProperAncestor(a, d) == a # d /\ a \in ClosureUp(parents[d], Len(parents))

\* C10 (as stated): the merged filter matches exactly when the configured
\* base, as the local branch or else as origin/<base>, is an ancestor of
\* the branch tip.
C10_Original ==
  merged_call.done =>
    ( merged_call.result <=>
        /\ refs[merged_call.branch] # None
        /\ \/ /\ refs[Base] # None
              /\ ProperAncestor(Unwrap(refs[Base]), Unwrap(refs[merged_call.branch]))
           \/ /\ refs[RemoteBase(Base)] # None
              /\ ProperAncestor(Unwrap(refs[RemoteBase(Base)]),
                                Unwrap(refs[merged_call.branch])) )

\* C10 (amended): the merged filter matches exactly when the branch
\* resolves and its tip is a proper ancestor of the configured base, taken
\* first as the local branch and then as origin/<base>: the branch is
\* contained in the base, not the base in the branch.
C10_MergedIffBranchInBase ==
  merged_call.done =>
    ( merged_call.result <=>
        /\ refs[merged_call.branch] # None
        /\ \/ /\ refs[Base] # None
              /\ ProperAncestor(Unwrap(refs[merged_call.branch]), Unwrap(refs[Base]))
           \/ /\ refs[RemoteBase(Base)] # None
              /\ ProperAncestor(Unwrap(refs[merged_call.branch]),
                                Unwrap(refs[RemoteBase(Base)])) )

\* The call that only the second resolution decides: the local base exists
\* and does not contain the branch, origin/<base> does.
C10_Witness ==
  /\ merged_call.done
  /\ merged_call.result
  /\ refs[Base] # None
  /\ ~ ProperAncestor(Unwrap(refs[merged_call.branch]), Unwrap(refs[Base]))

\* ---------------------------------------------------------------- clean
\* clean.rs execute, the closure get_status: the status paired with the
\* worktree of the same path, if statuses were computed at all.
get_status(sts, wt) ==
  IF sts = None THEN None
  ELSE LET s == Unwrap(sts)
           hits == { i \in DOMAIN s : s[i][1].path = wt.path }
       IN  IF hits = {} THEN None
           ELSE Some(s[CHOOSE i \in hits : \A j \in hits : i <= j][2])

\* clean.rs execute, the filter closure without the test of opts.gone:
\* an upstream-gone worktree is selected whether or not --gone was given.
clean_filter_gone_always(o, sts, current_path, repo, wt) ==
  IF wt.path = current_path THEN FALSE
  ELSE IF is_main_worktree(wt, repo) THEN FALSE
  ELSE IF wt.detached THEN FALSE
  ELSE IF wt.branch_short # None /\ Unwrap(wt.branch_short) = Base THEN FALSE
  ELSE IF o.merged /\ wt.branch_short # None
          /\ is_merged(Unwrap(wt.branch_short), Base) THEN TRUE
  ELSE IF get_status(sts, wt) # None
          /\ Unwrap(get_status(sts, wt)).upstream_gone THEN TRUE
  ELSE IF o.stale_days # None /\ get_status(sts, wt) # None
          /\ Unwrap(get_status(sts, wt)).last_commit_time # None
          /\ Unwrap(Unwrap(get_status(sts, wt)).last_commit_time)
               > Unwrap(o.stale_days) * SecondsPerDay THEN TRUE
  ELSE FALSE

\* clean.rs execute, the filter closure with the age compared by >=: a
\* last commit exactly stale_days old counts as stale.
clean_filter_stale_inclusive(o, sts, current_path, repo, wt) ==
  IF wt.path = current_path THEN FALSE
  ELSE IF is_main_worktree(wt, repo) THEN FALSE
  ELSE IF wt.detached THEN FALSE
  ELSE IF wt.branch_short # None /\ Unwrap(wt.branch_short) = Base THEN FALSE
  ELSE IF o.merged /\ wt.branch_short # None
          /\ is_merged(Unwrap(wt.branch_short), Base) THEN TRUE
  ELSE IF o.gone /\ get_status(sts, wt) # None
          /\ Unwrap(get_status(sts, wt)).upstream_gone THEN TRUE
  ELSE IF o.stale_days # None /\ get_status(sts, wt) # None
          /\ Unwrap(get_status(sts, wt)).last_commit_time # None
          /\ Unwrap(Unwrap(get_status(sts, wt)).last_commit_time)
               >= Unwrap(o.stale_days) * SecondsPerDay THEN TRUE
  ELSE FALSE

\* The filter listing a worktree on the base branch as well when it only
\* previews.
clean_filter_preview_keeps_base(o, sts, current_path, repo, wt) ==
  IF wt.path = current_path THEN FALSE
  ELSE IF is_main_worktree(wt, repo) THEN FALSE
  ELSE IF wt.detached THEN FALSE
  ELSE IF ~ o.dry_run /\ wt.branch_short # None
          /\ Unwrap(wt.branch_short) = Base THEN FALSE
  ELSE IF o.merged /\ wt.branch_short # None
          /\ is_merged(Unwrap(wt.branch_short), Base) THEN TRUE
  ELSE IF o.gone /\ get_status(sts, wt) # None
          /\ Unwrap(get_status(sts, wt)).upstream_gone THEN TRUE
  ELSE IF o.stale_days # None /\ get_status(sts, wt) # None
          /\ Unwrap(get_status(sts, wt)).last_commit_time # None
          /\ Unwrap(Unwrap(get_status(sts, wt)).last_commit_time)
               > Unwrap(o.stale_days) * SecondsPerDay THEN TRUE
  ELSE FALSE

\* clean.rs execute, the filter closure of candidates.
clean_filter(o, sts, current_path, repo, wt) ==
  IF wt.path = current_path THEN FALSE
  ELSE IF is_main_worktree(wt, repo) THEN FALSE
  ELSE IF wt.detached THEN FALSE
  ELSE IF wt.branch_short # None /\ Unwrap(wt.branch_short) = Base THEN FALSE
  ELSE IF o.merged /\ wt.branch_short # None
          /\ is_merged(Unwrap(wt.branch_short), Base) THEN TRUE
  ELSE IF o.gone /\ get_status(sts, wt) # None
          /\ Unwrap(get_status(sts, wt)).upstream_gone THEN TRUE
  ELSE IF o.stale_days # None /\ get_status(sts, wt) # None
          /\ Unwrap(get_status(sts, wt)).last_commit_time # None
          /\ Unwrap(Unwrap(get_status(sts, wt)).last_commit_time)
               > Unwrap(o.stale_days) * SecondsPerDay THEN TRUE
  ELSE FALSE

\* clean.rs execute up to `candidates.is_empty()`: enumeration, statuses
\* when --gone or --stale asks for them, the no-filter exit, selection.
CleanSelect ==
  /\ pc = "clean"
  /\ LET wts == list_worktrees(Repo)
         sts == IF opts.gone \/ opts.stale_days # None
                THEN Some(get_all_statuses(wts)) ELSE None
         has_filter == opts.merged \/ opts.gone \/ opts.stale_days # None
         Keep(wt) == clean_filter(opts, sts, cwd, Repo, wt)
         cands == IF has_filter THEN SelectSeq(wts, Keep) ELSE << >>
     IN  /\ worktrees' = wts
         /\ statuses' = sts
         /\ candidates' = cands
         /\ IF cands = << >>
            THEN pc' = "done" /\ result' = "ok"
            ELSE pc' = "clean_dirty" /\ result' = result
  /\ UNCHANGED <<envVars, opts, log, refs0, prev, candidates_with_dirty,
                 clean_candidates, gate, removed, syncVars, idx, merged_call, agg,
                 arg, ret, children>>

\* clean.rs execute: the (worktree, is_dirty) pair of one candidate.
dirty_of(wt) == << wt, is_worktree_dirty(wt) >>

\* The split that forgets the dirty flag and keeps every candidate.
NotDirty_KeepAll(pairs) == [ i \in DOMAIN pairs |-> pairs[i][1] ]

\* clean.rs execute: clean_candidates, the candidates whose flag is false,
\* in order.
RECURSIVE NotDirty(_)
NotDirty(pairs) ==
  IF pairs = << >> THEN << >>
  ELSE IF Head(pairs)[2] THEN NotDirty(Tail(pairs))
  ELSE << Head(pairs)[1] >> \o NotDirty(Tail(pairs))

\* clean.rs execute from the dirty check to the gate: the report, the
\* dry-run exit, the split into clean candidates, the all-dirty exit.
CleanDirty ==
  /\ pc = "clean_dirty"
  /\ LET pairs == [ i \in DOMAIN candidates |-> dirty_of(candidates[i]) ]
         cleans == IF opts.dry_run THEN << >> ELSE NotDirty(pairs)
     IN  /\ candidates_with_dirty' = pairs
         /\ clean_candidates' = cleans
         /\ IF opts.dry_run \/ cleans = << >>
            THEN pc' = "done" /\ result' = "ok"
            ELSE pc' = "clean_gate" /\ result' = result
  /\ UNCHANGED <<envVars, opts, log, worktrees, statuses, refs0, prev,
                 candidates, gate, removed, syncVars, idx, merged_call, agg, arg, ret, children>>

\* The gate letting a run without --yes and without a terminal through.
gate_open(yes, is_terminal, answer) ==
  IF ~ yes /\ is_terminal
  THEN IF answer = "yes" THEN "confirmed"
       ELSE IF answer = "no" THEN "declined" ELSE "prompt_error"
  ELSE "bypass"

\* clean.rs execute, the confirmation gate: how it is passed, for the
\* --yes option, stdin being a terminal, and what the prompt returned.
gate_outcome(yes, is_terminal, answer) ==
  IF ~ yes /\ is_terminal
  THEN IF answer = "yes" THEN "confirmed"
       ELSE IF answer = "no" THEN "declined" ELSE "prompt_error"
  ELSE IF ~ yes THEN "refused"
  ELSE "bypass"

CleanGate ==
  /\ pc = "clean_gate"
  /\ \E answer \in { "yes", "no", "error" } :
       LET g == gate_outcome(opts.yes, tty, answer)
       IN  /\ gate' = g
           /\ IF g \in { "confirmed", "bypass" }
              THEN pc' = "clean_remove" /\ result' = result
              ELSE IF g = "declined"
              THEN pc' = "done" /\ result' = "ok"
              ELSE pc' = "done" /\ result' = "err"
  /\ idx' = 1
  /\ UNCHANGED <<envVars, opts, log, worktrees, statuses, refs0, prev,
                 candidates, candidates_with_dirty, clean_candidates, removed,
                 syncVars, merged_call, agg, arg, ret, children>>

\* `git worktree remove <path>` exiting zero: the checkout and its
\* administrative entry are gone.
RemoveFromDisk(path) ==
  LET Keep(f) == f.path # path IN SelectSeq(linked, Keep)

\* The loop body returning an error on a non-zero exit as well.
after_remove_stop_on_fail(outcome) ==
  [ returns |-> outcome \in { "spawn", "badpath", "fail" }, counted |-> outcome = "ok" ]

\* clean.rs execute, the loop body after the path conversion and the
\* subprocess: `?` returns the error of a path that is not text and of a
\* subprocess that could not run; exit zero counts, non-zero is a warning.
after_remove(outcome) ==
  [ returns |-> outcome \in { "spawn", "badpath" }, counted |-> outcome = "ok" ]

\* clean.rs execute, one turn of the removal loop.  The path may not be
\* text ("badpath"), git may not start ("spawn"), or it runs and exits
\* zero ("ok") or non-zero ("fail").
CleanRemove ==
  /\ pc = "clean_remove"
  /\ idx <= Len(clean_candidates)
  /\ LET wt == clean_candidates[idx]
     IN  \E outcome \in { "ok", "fail", "spawn", "badpath" } :
           /\ log' = IF outcome = "badpath" THEN log
                     ELSE Append(log, [ cmd |-> "remove", path |-> wt.path,
                                        outcome |-> outcome ])
           /\ linked' = IF outcome = "ok" THEN RemoveFromDisk(wt.path) ELSE linked
           /\ removed' = IF after_remove(outcome).counted THEN removed + 1 ELSE removed
           /\ IF after_remove(outcome).returns
              THEN pc' = "done" /\ result' = "err" /\ idx' = idx
              ELSE pc' = pc /\ result' = result /\ idx' = idx + 1
  /\ UNCHANGED <<parents, refs, mainw, cwd, tty, opts, worktrees, statuses, refs0,
                 prev, candidates, candidates_with_dirty, clean_candidates, gate,
                 syncVars, merged_call, agg, arg, ret, children>>

\* clean.rs execute, after the loop: the summary and Ok(()).
CleanFinish ==
  /\ pc = "clean_remove"
  /\ idx > Len(clean_candidates)
  /\ pc' = "done"
  /\ result' = "ok"
  /\ UNCHANGED <<envVars, opts, log, worktrees, statuses, refs0, prev,
                 cleanVars, syncVars, idx, merged_call, agg, arg, ret, children>>

\* ------------------------------------------------ repositories for clean
\* The graph the clean and sync runs start from: the chain 1 <- 2 <- 3 <- 4
\* and a commit 5 forked off commit 1.  The local base is at 2 and
\* origin/<base> at 3, so a branch at 1 is merged and one at 5 is not; a
\* fetch finds origin/<base> moved on to 4.
ForkGraph == << {}, {1}, {2}, {3}, {1} >>
LocalBaseTip == Some(2)
MergedTip == Unwrap(LocalBaseTip) - 1
ForkTip == Len(ForkGraph)
RemoteBaseTip == Some(3)
FetchedBaseTip == Some(4)
YoungAge == 1 * SecondsPerDay
OldAge == 10 * SecondsPerDay

\* What is drawn for one checkout: head, whether it is on the base branch,
\* the tip of its branch, its upstream, distance behind it, age, dirtiness.
Profile(h, b, t, u, n, a, d) ==
  [ head |-> h, on_base |-> b, tip |-> t, up |-> u, behind |-> n, age |-> a, dirty |-> d ]

MkFacts(path, n, pr) ==
  [ path |-> path, name |-> n, head |-> pr.head,
    branch |-> IF pr.on_base THEN Base ELSE FeatBranch(n),
    up |-> pr.up, ahead |-> 0, behind |-> pr.behind, age |-> pr.age,
    dirty |-> pr.dirty, mid |-> FALSE ]

MainName == "m"

\* The refs of a repository whose checkouts are ps (linked) and m (main).
RefsOf(ps, m) ==
  [ r \in { Base, RemoteBase(Base), FeatBranch(MainName) }
          \cup { FeatBranch(WtNames[i]) : i \in DOMAIN ps } |->
      IF r = Base THEN LocalBaseTip
      ELSE IF r = RemoteBase(Base) THEN RemoteBaseTip
      ELSE IF r = FeatBranch(MainName) THEN Some(m.tip)
      ELSE Some(ps[CHOOSE i \in DOMAIN ps : r = FeatBranch(WtNames[i])].tip) ]

\* A repository with at most MaxLinked linked worktrees drawn from P and a
\* main checkout drawn from M; git lets one checkout at most be on a branch,
\* so at most one is on the base.  The process starts in a checkout that
\* can be opened.
InitRepo(P, M, max) ==
  \E n \in 0 .. max : \E ps \in [ 1 .. n -> P ] : \E m \in M :
    /\ Cardinality({ i \in 1 .. n : ps[i].on_base }) + (IF m.on_base THEN 1 ELSE 0) <= 1
    /\ parents = ForkGraph
    /\ refs = RefsOf(ps, m)
    /\ linked = [ i \in 1 .. n |-> MkFacts(LinkedPath(WtNames[i]), WtNames[i], ps[i]) ]
    /\ mainw = MkFacts(MainPath, MainName, m)
    /\ cwd \in { MainPath }
               \cup { LinkedPath(WtNames[i]) : i \in { j \in 1 .. n : ps[j].head # "broken" } }

\* Selection: every mix of merged / gone / stale on a feature branch, and
\* one checkout of each kind the exclusions are about, each matching
\* every filter it can.
SelectProfiles ==
  { Profile("branch", FALSE, ForkTip, "none", 0, Some(YoungAge), FALSE),
    Profile("branch", FALSE, MergedTip, "none", 0, Some(YoungAge), FALSE),
    Profile("branch", FALSE, ForkTip, "gone", 0, Some(YoungAge), FALSE),
    Profile("branch", FALSE, ForkTip, "none", 0, Some(OldAge), FALSE),
    Profile("branch", FALSE, MergedTip, "gone", 0, Some(OldAge), FALSE) }
  \cup { Profile("branch", TRUE, Unwrap(LocalBaseTip), "gone", 0, Some(OldAge), FALSE),
         Profile("detached", FALSE, MergedTip, "none", 0, Some(OldAge), FALSE),
         Profile("broken", FALSE, MergedTip, "none", 0, None, FALSE) }
SelectMains ==
  { Profile("branch", TRUE, Unwrap(LocalBaseTip), "none", 0, Some(YoungAge), FALSE),
    Profile("branch", FALSE, MergedTip, "gone", 0, Some(OldAge), FALSE) }

FilterOpts ==
  { [ NoOpts EXCEPT !.merged = m, !.gone = g, !.stale_days = s ] :
      m \in BOOLEAN, g \in BOOLEAN, s \in { None, Some(StaleChoice) } }

InitSelect ==
  /\ InitRepo(SelectProfiles, SelectMains, MaxLinked)
  /\ tty = FALSE
  /\ opts \in FilterOpts
  /\ pc = "clean"
  /\ IdleRun

NextSelect == CleanSelect

\* Candidate selection over every repository and filter combination.
SpecSelect == InitSelect /\ [][NextSelect]_vars

\* The whole command: fewer kinds of checkout, each clean or dirty, every
\* option, with and without a terminal.
CleanProfiles ==
  { Profile("branch", FALSE, t, "none", 0, Some(YoungAge), d) :
      t \in { MergedTip, ForkTip }, d \in BOOLEAN }
  \cup { Profile("detached", FALSE, MergedTip, "none", 0, Some(YoungAge), FALSE) }
CleanMains ==
  { Profile("branch", TRUE, Unwrap(LocalBaseTip), "none", 0, Some(YoungAge), FALSE),
    Profile("branch", FALSE, MergedTip, "none", 0, Some(YoungAge), FALSE) }

InitClean ==
  /\ InitRepo(CleanProfiles, CleanMains, MaxLinked)
  /\ tty \in BOOLEAN
  /\ opts \in { [ NoOpts EXCEPT !.merged = m, !.dry_run = d, !.yes = y ] :
                  m \in BOOLEAN, d \in BOOLEAN, y \in BOOLEAN }
  /\ pc = "clean"
  /\ IdleRun

NextClean ==
  \/ CleanSelect
  \/ CleanDirty
  \/ CleanGate
  \/ CleanRemove
  \/ CleanFinish

SpecClean == InitClean /\ [][NextClean]_vars

\* Staleness: last commits one day short of StaleChoice days, exactly
\* that old, one second and one day older, and twice as old; a checkout
\* that cannot be opened has no age.  --stale is StaleChoice or four times
\* as many days, and is the only filter.
DaysOld(k) == Some(k * SecondsPerDay)
StaleProfiles ==
  { Profile("branch", FALSE, ForkTip, "none", 0, a, FALSE) :
      a \in { DaysOld(StaleChoice - 1), DaysOld(StaleChoice),
              Some(StaleChoice * SecondsPerDay + 1), DaysOld(StaleChoice + 1),
              DaysOld(2 * StaleChoice) } }
  \cup { Profile("broken", FALSE, ForkTip, "none", 0, None, FALSE) }
StaleMains ==
  { Profile("branch", TRUE, Unwrap(LocalBaseTip), "none", 0, DaysOld(2 * StaleChoice), FALSE) }

InitStale ==
  /\ InitRepo(StaleProfiles, StaleMains, MaxLinked)
  /\ tty = FALSE
  /\ opts \in { [ NoOpts EXCEPT !.stale_days = Some(n) ] :
                  n \in { StaleChoice, 4 * StaleChoice } }
  /\ pc = "clean"
  /\ IdleRun

NextStale == CleanSelect

SpecStale == InitStale /\ [][NextStale]_vars

\* ---------------------------------------------- get_all_statuses, unfolded
\* The parallel map of get_all_statuses, one task per input worktree: the
\* tasks finish in any order, each leaving its status in the slot of its
\* own index; finished records the order in which they did.

\* The pairs put together in the order the tasks finished.
collect_as_finished(wts, slots, finished) ==
  [ k \in DOMAIN finished |-> << wts[finished[k]], Unwrap(slots[finished[k]]) >> ]

\* status.rs get_all_statuses, `.collect()` of an indexed parallel
\* iterator: the i-th pair is the i-th worktree with the i-th result.
collect(wts, slots, finished) ==
  [ i \in DOMAIN wts |-> << wts[i], Unwrap(slots[i]) >> ]

\* The caller lists the worktrees and get_all_statuses starts its tasks.
StatusStart ==
  /\ pc = "statuses"
  /\ worktrees' = list_worktrees(Repo)
  /\ agg' = [ slots |-> [ i \in DOMAIN list_worktrees(Repo) |-> None ],
              finished |-> << >> ]
  /\ pc' = "statuses_par"
  /\ UNCHANGED <<envVars, opts, result, log, statuses, refs0, prev, cleanVars,
                 syncVars, idx, merged_call, arg, ret, children>>

\* One task of the parallel map runs get_worktree_status_full.
StatusTask ==
  /\ pc = "statuses_par"
  /\ \E i \in DOMAIN worktrees :
       /\ agg.slots[i] = None
       /\ agg' = [ slots |-> [ agg.slots EXCEPT
                                 ![i] = Some(get_worktree_status_full(worktrees[i])) ],
                   finished |-> Append(agg.finished, i) ]
  /\ UNCHANGED <<envVars, runVars, cleanVars, syncVars, idx, merged_call, arg, ret, children>>

\* Every task is done: the vector is collected and returned.
StatusCollect ==
  /\ pc = "statuses_par"
  /\ \A i \in DOMAIN worktrees : agg.slots[i] # None
  /\ statuses' = Some(collect(worktrees, agg.slots, agg.finished))
  /\ pc' = "done"
  /\ result' = "ok"
  /\ UNCHANGED <<envVars, opts, log, worktrees, refs0, prev, cleanVars, syncVars,
                 idx, merged_call, agg, arg, ret, children>>

\* Statuses: a branch without upstream, with an upstream that is gone, with
\* one the distance to which cannot be computed, level with its upstream,
\* behind it and dirty; a detached checkout; one that cannot be opened.
StatusProfiles ==
  { Profile("branch", FALSE, ForkTip, u, 0, Some(YoungAge), FALSE) :
      u \in { "none", "gone", "nograph", "ok" } }
  \cup { Profile("branch", FALSE, MergedTip, "ok", MaxBehind, Some(OldAge), TRUE),
         Profile("detached", FALSE, ForkTip, "none", 0, Some(OldAge), FALSE),
         Profile("broken", FALSE, ForkTip, "none", 0, None, FALSE) }
StatusMains ==
  { Profile("branch", TRUE, Unwrap(LocalBaseTip), "ok", 1, Some(YoungAge), FALSE) }

InitStatus ==
  /\ InitRepo(StatusProfiles, StatusMains, MaxSyncLinked)
  /\ tty = FALSE
  /\ opts = NoOpts
  /\ pc = "statuses"
  /\ IdleRun

NextStatus ==
  \/ StatusStart
  \/ StatusTask
  \/ StatusCollect

SpecStatus == InitStatus /\ [][NextStatus]_vars

\* ------------------------------------------------------------ enumeration
\* A caller of list_worktrees: `let worktrees = list_worktrees(repo)?`.
ListCall ==
  /\ pc = "list"
  /\ worktrees' = list_worktrees_result(Repo).value
  /\ result' = IF list_worktrees_result(Repo).ok THEN "ok" ELSE "err"
  /\ pc' = "done"
  /\ UNCHANGED <<envVars, opts, log, statuses, refs0, prev, cleanVars, syncVars,
                 idx, merged_call, agg, arg, ret, children>>

\* Enumeration: linked worktrees on a branch, detached, impossible to
\* open, and with an administrative entry that cannot be looked up.
ListProfiles ==
  { Profile(h, FALSE, ForkTip, "none", 0, Some(YoungAge), FALSE) :
      h \in { "branch", "detached" } }
  \cup { Profile(h, FALSE, ForkTip, "none", 0, None, FALSE) :
           h \in { "broken", "nolookup" } }
ListMains ==
  { Profile("branch", b, Unwrap(LocalBaseTip), "none", 0, Some(YoungAge), FALSE) :
      b \in BOOLEAN }

InitList ==
  /\ InitRepo(ListProfiles, ListMains, MaxLinked)
  /\ tty = FALSE
  /\ opts = NoOpts
  /\ pc = "list"
  /\ IdleRun

NextList == ListCall

SpecList == InitList /\ [][NextList]_vars

\* ---------------------------------------------------------- find_worktree
\* Path::file_name()
file_name(path) == IF path = << >> THEN None ELSE Some(path[Len(path)])

\* worktree.rs find_worktree: the first entry whose short branch name or
\* whose final path segment is the name.
find_worktree(wts, nm) ==
  LET hits == { i \in DOMAIN wts :
                  \/ wts[i].branch_short = Some(nm)
                  \/ file_name(wts[i].path) = Some(nm) }
  IN  IF hits = {} THEN None
      ELSE Some(wts[CHOOSE i \in hits : \A j \in hits : i <= j])

\* A caller: list_worktrees, then find_worktree(&worktrees, name).
FindCall ==
  /\ pc = "find"
  /\ worktrees' = list_worktrees(Repo)
  /\ ret' = find_worktree(list_worktrees(Repo), arg)
  /\ pc' = "done"
  /\ result' = "ok"
  /\ UNCHANGED <<envVars, opts, log, statuses, refs0, prev, cleanVars, syncVars,
                 idx, merged_call, agg, arg, children>>

\* Lookup: worktrees on a branch, detached and impossible to open, looked
\* up by every directory name, every branch name and a name nobody has.
FindProfiles ==
  { Profile(h, FALSE, ForkTip, "none", 0, Some(YoungAge), FALSE) :
      h \in { "branch", "detached" } }
  \cup { Profile("broken", FALSE, ForkTip, "none", 0, None, FALSE) }
FindMains ==
  { Profile("branch", TRUE, Unwrap(LocalBaseTip), "none", 0, Some(YoungAge), FALSE) }
LookupNames ==
  { WtNames[i] : i \in 1 .. MaxLinked } \cup { FeatBranch(WtNames[i]) : i \in 1 .. MaxLinked }
  \cup { Base, MainPath[Len(MainPath)], "nope" }

InitFind ==
  /\ InitRepo(FindProfiles, FindMains, MaxLinked)
  /\ tty = FALSE
  /\ opts = NoOpts
  /\ pc = "find"
  /\ arg \in LookupNames
  /\ IdleCall

NextFind == FindCall

SpecFind == InitFind /\ [][NextFind]_vars

\* -------------------------------------------------------- slug_from_branch
\* Strings are sequences of characters.  char::is_alphanumeric holds of
\* the letters and digits.
Alphanumeric == { "a", "e", "f", "g", "i", "l", "n", "o", "t", "Z", "7" }
OtherChars == { "-", "_", "/", " ", "." }

\* str::trim_matches('-'), front and back.
RECURSIVE trim_start(_)
trim_start(str) ==
  IF str # << >> /\ Head(str) = "-" THEN trim_start(Tail(str)) ELSE str
RECURSIVE trim_end(_)
trim_end(str) ==
  IF str # << >> /\ str[Len(str)] = "-"
  THEN trim_end(SubSeq(str, 1, Len(str) - 1)) ELSE str
trim_matches(str) == trim_end(trim_start(str))

\* The closure of the map: keep alphanumerics, '-' and '_'.
slug_char(c) == IF c \in Alphanumeric \/ c = "-" \/ c = "_" THEN c ELSE "-"

\* slug_from_branch trimming the front only.
slug_from_branch_trim_start(branch) ==
  trim_start([ i \in DOMAIN branch |-> slug_char(branch[i]) ])

\* worktree.rs slug_from_branch
slug_from_branch(branch) ==
  trim_matches([ i \in DOMAIN branch |-> slug_char(branch[i]) ])

SlugCall ==
  /\ pc = "slug"
  /\ ret' = Some(slug_from_branch(arg))
  /\ pc' = "done"
  /\ result' = "ok"
  /\ UNCHANGED <<envVars, opts, log, worktrees, statuses, refs0, prev, cleanVars,
                 syncVars, idx, merged_call, agg, arg, children>>

\* Branch names: every string of at most MaxSlugLen characters over a
\* letter, a digit, '-', '_', '/' and ' ', and the names of the unit test.
SlugChars == { "a", "7", "-", "_", "/", " " }
FeatLogin == << "f", "e", "a", "t", "/", "l", "o", "g", "i", "n" >>
SlugInputs ==
  UNION { [ 1 .. n -> SlugChars ] : n \in 0 .. MaxSlugLen }
  \cup { FeatLogin, << ".", "Z", ".", "7", "." >> }

InitSlug ==
  /\ parents = ForkGraph
  /\ refs = [ r \in { Base } |-> LocalBaseTip ]
  /\ linked = << >>
  /\ mainw = PlainFacts(MainPath, "", Base)
  /\ cwd = MainPath
  /\ tty = FALSE
  /\ opts = NoOpts
  /\ pc = "slug"
  /\ arg \in SlugInputs
  /\ IdleCall

NextSlug == SlugCall

SpecSlug == InitSlug /\ [][NextSlug]_vars

\* -------------------------------------------------------------------- rm
\* rm.rs execute up to the gate: enumeration, lookup, and the refusals of
\* the current worktree, the main worktree and a dirty one without force.
RmFind ==
  /\ pc = "rm"
  /\ LET wts == list_worktrees(Repo)
         found == find_worktree(wts, opts.name)
         refused == \/ found = None
                    \/ Unwrap(found).path = cwd
                    \/ is_main_worktree(Unwrap(found), Repo)
                    \/ is_worktree_dirty(Unwrap(found)) /\ ~ opts.force
     IN  /\ worktrees' = wts
         /\ ret' = found
         /\ IF refused
            THEN pc' = "done" /\ result' = "err"
            ELSE pc' = "rm_gate" /\ result' = result
  /\ UNCHANGED <<envVars, opts, log, statuses, refs0, prev, cleanVars, syncVars,
                 idx, merged_call, agg, arg, children>>

\* rm.rs execute, the confirmation: a prompt when --yes is not given and
\* stdin is a terminal; nothing is asked otherwise.
rm_gate_outcome(yes, is_terminal, answer) ==
  IF ~ yes /\ is_terminal
  THEN IF answer = "yes" THEN "confirmed"
       ELSE IF answer = "no" THEN "declined" ELSE "prompt_error"
  ELSE IF yes THEN "bypass"
  ELSE "unasked"

RmGate ==
  /\ pc = "rm_gate"
  /\ \E answer \in { "yes", "no", "error" } :
       LET g == rm_gate_outcome(opts.yes, tty, answer)
       IN  /\ gate' = g
           /\ IF g \in { "declined", "prompt_error" }
              THEN pc' = "done" /\ result' = "err"
              ELSE pc' = "rm_remove" /\ result' = result
  /\ UNCHANGED <<envVars, opts, log, worktrees, statuses, refs0, prev,
                 candidates, candidates_with_dirty, clean_candidates, removed,
                 syncVars, idx, merged_call, agg, arg, ret, children>>

\* rm.rs execute, `git worktree remove [--force] <path>`: a path that is
\* not text, a subprocess that cannot run and a non-zero exit are errors.
RmRemove ==
  /\ pc = "rm_remove"
  /\ LET wt == Unwrap(ret)
     IN  \E outcome \in { "ok", "fail", "spawn", "badpath" } :
           /\ log' = IF outcome = "badpath" THEN log
                     ELSE Append(log, [ cmd |-> "remove", path |-> wt.path,
                                        outcome |-> outcome ])
           /\ linked' = IF outcome = "ok" THEN RemoveFromDisk(wt.path) ELSE linked
           /\ removed' = IF outcome = "ok" THEN removed + 1 ELSE removed
           /\ IF outcome # "ok"
              THEN pc' = "done" /\ result' = "err"
              ELSE IF opts.delete_branch /\ wt.branch_short # None
              THEN pc' = "rm_branch" /\ result' = result
              ELSE pc' = "done" /\ result' = "ok"
  /\ UNCHANGED <<parents, refs, mainw, cwd, tty, opts, worktrees, statuses, refs0,
                 prev, candidates, candidates_with_dirty, clean_candidates, gate,
                 syncVars, idx, merged_call, agg, arg, ret, children>>

\* rm.rs execute, `git branch -d <branch>`: whatever it does is reported
\* and the command returns Ok.
RmBranch ==
  /\ pc = "rm_branch"
  /\ LET wt == Unwrap(ret)
     IN  \E outcome \in { "ok", "fail", "spawn" } :
           /\ log' = Append(log, [ cmd |-> "branch_delete", path |-> wt.path,
                                   outcome |-> outcome ])
           /\ refs' = IF outcome = "ok"
                      THEN [ refs EXCEPT ![Unwrap(wt.branch_short)] = None ]
                      ELSE refs
  /\ pc' = "done"
  /\ result' = "ok"
  /\ UNCHANGED <<parents, linked, mainw, cwd, tty, opts, worktrees, statuses, refs0,
                 prev, cleanVars, syncVars, idx, merged_call, agg, arg, ret, children>>

\* rm: worktrees clean, dirty and impossible to open, named by directory,
\* by branch, or by a name nobody has.
RmProfiles ==
  { Profile("branch", FALSE, ForkTip, "none", 0, Some(YoungAge), d) : d \in BOOLEAN }
  \cup { Profile("broken", FALSE, ForkTip, "none", 0, None, FALSE) }
RmMains ==
  { Profile("branch", TRUE, Unwrap(LocalBaseTip), "none", 0, Some(YoungAge), FALSE) }
RmNames ==
  { WtNames[1], FeatBranch(WtNames[1]), FeatBranch(WtNames[MaxSyncLinked]), Base, "nope" }

InitRm ==
  /\ InitRepo(RmProfiles, RmMains, MaxSyncLinked)
  /\ tty \in BOOLEAN
  /\ opts \in [ name : RmNames, force : BOOLEAN, delete_branch : BOOLEAN, yes : BOOLEAN ]
  /\ pc = "rm"
  /\ IdleRun

NextRm ==
  \/ RmFind
  \/ RmGate
  \/ RmRemove
  \/ RmBranch

SpecRm == InitRm /\ [][NextRm]_vars

\* ----------------------------------------------------------------- sync
\* The disk with the checkout at path replaced by f.
LinkedWith(path, f) == [ i \in DOMAIN linked |-> IF linked[i].path = path THEN f ELSE linked[i] ]
MainWith(path, f) == IF mainw.path = path THEN f ELSE mainw

\* What `git rebase` leaves behind in the checkout f: on success the branch
\* sits on its upstream; a conflict stops with the rebase in progress; a
\* refusal (non-zero exit before anything was replayed) or a failure to
\* start changes nothing.  The branch ref moves only when a rebase finishes.
AfterRebase(f, outcome) ==
  IF outcome = "ok" THEN [ f EXCEPT !.behind = 0 ]
  ELSE IF outcome = "conflict" THEN [ f EXCEPT !.mid = TRUE ]
  ELSE f
RefsAfterRebase(f, outcome) ==
  IF outcome = "ok" THEN [ refs EXCEPT ![f.branch] = FetchedBaseTip ] ELSE refs

\* What `git rebase --abort` leaves behind: exit zero ends the rebase in
\* progress; otherwise the checkout stays as it was.
AfterAbort(f, outcome) ==
  IF outcome = "ok" THEN [ f EXCEPT !.mid = FALSE ] ELSE f

\* sync.rs execute, the fetch: `git fetch --prune origin` when --fetch is
\* given, whatever dry_run says.  A fetch that cannot start ends the
\* command; one that exits non-zero is a warning.
SyncFetch ==
  /\ pc = "sync"
  /\ IF opts.fetch
     THEN \E outcome \in { "ok", "fail", "spawn" } :
            /\ log' = Append(log, [ cmd |-> "fetch", path |-> Repo.root,
                                    outcome |-> outcome ])
            /\ refs' = IF outcome = "ok"
                       THEN [ refs EXCEPT ![RemoteBase(Base)] = FetchedBaseTip ]
                       ELSE refs
            /\ IF outcome = "spawn"
               THEN pc' = "done" /\ result' = "err"
               ELSE pc' = "sync_list" /\ result' = result
     ELSE /\ pc' = "sync_list"
          /\ UNCHANGED <<log, refs, result>>
  /\ UNCHANGED <<parents, linked, mainw, cwd, tty, opts, worktrees, statuses, refs0,
                 prev, cleanVars, syncVars, idx, merged_call, agg, arg, ret, children>>

\* sync.rs execute: list_worktrees, get_all_statuses, counters at zero.
SyncList ==
  /\ pc = "sync_list"
  /\ worktrees' = list_worktrees(Repo)
  /\ statuses' = Some(get_all_statuses(list_worktrees(Repo)))
  /\ idx' = 1
  /\ pc' = "sync_loop"
  /\ UNCHANGED <<envVars, opts, result, log, refs0, prev, cleanVars, syncVars,
                 merged_call, agg, arg, ret, children>>

\* The loop body testing dry_run before dirtiness.
sync_class_dry_first(wt, status, repo, dry_run) ==
  IF is_main_worktree(wt, repo) THEN "skip"
  ELSE IF wt.detached THEN "skip"
  ELSE IF status.upstream = None THEN "no_upstream"
  ELSE IF unwrap_or(status.behind, 0) = 0 THEN "skip"
  ELSE IF dry_run THEN "would"
  ELSE IF is_worktree_dirty(wt) THEN "dirty"
  ELSE "rebase"

\* sync.rs execute, the loop body up to the rebase: what happens to one
\* (worktree, status) pair.
sync_class(wt, status, repo, dry_run) ==
  IF is_main_worktree(wt, repo) THEN "skip"
  ELSE IF wt.detached THEN "skip"
  ELSE IF status.upstream = None THEN "no_upstream"
  ELSE IF unwrap_or(status.behind, 0) = 0 THEN "skip"
  ELSE IF is_worktree_dirty(wt) THEN "dirty"
  ELSE IF dry_run THEN "would"
  ELSE "rebase"

\* The branch on the exit status that counts a failed rebase and goes on
\* without aborting it.
after_rebase_no_abort(outcome) ==
  IF outcome = "ok" THEN [ pc |-> "sync_loop", count |-> "synced" ]
  ELSE IF outcome = "spawn" THEN [ pc |-> "done", count |-> "none" ]
  ELSE [ pc |-> "sync_loop", count |-> "failed" ]

\* sync.rs execute, what follows the rebase subprocess: `?` returns when it
\* could not run, success counts synced, a non-zero exit aborts first.
after_rebase(outcome) ==
  IF outcome = "ok" THEN [ pc |-> "sync_loop", count |-> "synced" ]
  ELSE IF outcome = "spawn" THEN [ pc |-> "done", count |-> "none" ]
  ELSE [ pc |-> "sync_abort", count |-> "none" ]

CurrentPair == Unwrap(statuses)[idx]

\* sync.rs execute, one turn of the loop, the rebase subprocess included.
SyncStep ==
  /\ pc = "sync_loop"
  /\ idx <= Len(Unwrap(statuses))
  /\ LET wt == CurrentPair[1]
         class == sync_class(wt, CurrentPair[2], Repo, opts.dry_run)
     IN  IF class = "rebase"
         THEN \E outcome \in { "ok", "conflict", "refused", "spawn" } :
                LET f == FactsAt(wt.path)
                    next == after_rebase(outcome)
                IN  /\ log' = Append(log, [ cmd |-> "rebase", path |-> wt.path,
                                            outcome |-> outcome ])
                    /\ linked' = LinkedWith(wt.path, AfterRebase(f, outcome))
                    /\ mainw' = MainWith(wt.path, AfterRebase(f, outcome))
                    /\ refs' = RefsAfterRebase(f, outcome)
                    /\ synced' = IF next.count = "synced" THEN Append(synced, wt.path)
                                 ELSE synced
                    /\ failed' = IF next.count = "failed" THEN Append(failed, wt.path)
                                 ELSE failed
                    /\ pc' = next.pc
                    /\ result' = IF next.pc = "done" THEN "err" ELSE result
                    /\ idx' = IF next.pc = "sync_loop" THEN idx + 1 ELSE idx
                    /\ UNCHANGED <<skipped_dirty, skipped_no_upstream>>
         ELSE /\ synced' = IF class = "would" THEN Append(synced, wt.path) ELSE synced
              /\ skipped_dirty' = IF class = "dirty" THEN Append(skipped_dirty, wt.path)
                                  ELSE skipped_dirty
              /\ skipped_no_upstream' = IF class = "no_upstream"
                                        THEN Append(skipped_no_upstream, wt.path)
                                        ELSE skipped_no_upstream
              /\ idx' = idx + 1
              /\ UNCHANGED <<log, linked, mainw, refs, failed, pc, result>>
  /\ UNCHANGED <<parents, cwd, tty, opts, worktrees, statuses, refs0, prev, cleanVars,
                 merged_call, agg, arg, ret, children>>

\* sync.rs execute, the else branch: `git rebase --abort` with its result
\* dropped (`let _ =`), then failed += 1.
SyncAbort ==
  /\ pc = "sync_abort"
  /\ LET wt == CurrentPair[1]
         f == FactsAt(wt.path)
     IN  \E outcome \in { "ok", "fail", "spawn" } :
           /\ log' = Append(log, [ cmd |-> "rebase_abort", path |-> wt.path,
                                   outcome |-> outcome ])
           /\ linked' = LinkedWith(wt.path, AfterAbort(f, outcome))
           /\ mainw' = MainWith(wt.path, AfterAbort(f, outcome))
           /\ failed' = Append(failed, wt.path)
  /\ idx' = idx + 1
  /\ pc' = "sync_loop"
  /\ UNCHANGED <<parents, refs, cwd, tty, opts, result, worktrees, statuses, refs0,
                 prev, cleanVars, synced, skipped_dirty, skipped_no_upstream,
                 merged_call, agg, arg, ret, children>>

\* sync.rs execute, after the loop: the summary and Ok(()).
SyncSummary ==
  /\ pc = "sync_loop"
  /\ idx > Len(Unwrap(statuses))
  /\ pc' = "done"
  /\ result' = "ok"
  /\ UNCHANGED <<envVars, opts, log, worktrees, statuses, refs0, prev, cleanVars,
                 syncVars, idx, merged_call, agg, arg, ret, children>>

\* After a dry run has reported, the user runs sync again without
\* --dry-run; the preview's report is kept in prev.
SyncAgain ==
  /\ pc = "done"
  /\ result = "ok"
  /\ opts.dry_run
  /\ ~ prev.ran
  /\ prev' = [ ran |-> TRUE, opts |-> opts, log |-> log, synced |-> synced,
               skipped_dirty |-> skipped_dirty,
               skipped_no_upstream |-> skipped_no_upstream, failed |-> failed ]
  /\ opts' = [ opts EXCEPT !.dry_run = FALSE ]
  /\ pc' = "sync"
  /\ result' = "running"
  /\ log' = << >>
  /\ worktrees' = << >>
  /\ statuses' = None
  /\ idx' = 1
  /\ synced' = << >>
  /\ skipped_dirty' = << >>
  /\ skipped_no_upstream' = << >>
  /\ failed' = << >>
  /\ refs0' = refs
  /\ UNCHANGED <<envVars, cleanVars, merged_call, agg, arg, ret, children>>

\* Sync: a checkout of every kind the loop tells apart.
SyncProfiles ==
  { Profile("branch", FALSE, MergedTip, "ok", n, Some(YoungAge), d) :
      n \in { 0, MaxBehind }, d \in BOOLEAN }
  \cup { Profile("branch", FALSE, MergedTip, "ok", 1, Some(YoungAge), TRUE),
         Profile("branch", FALSE, MergedTip, "none", 0, Some(YoungAge), FALSE),
         Profile("branch", FALSE, MergedTip, "gone", 0, Some(YoungAge), FALSE),
         Profile("detached", FALSE, MergedTip, "none", 0, Some(YoungAge), FALSE),
         Profile("broken", FALSE, MergedTip, "none", 0, None, FALSE) }
SyncMains ==
  { Profile("branch", TRUE, Unwrap(LocalBaseTip), "ok", 1, Some(YoungAge), FALSE) }

InitSync ==
  /\ InitRepo(SyncProfiles, SyncMains, MaxSyncLinked)
  /\ tty = FALSE
  /\ opts \in { [ NoOpts EXCEPT !.dry_run = d, !.fetch = f ] : d \in BOOLEAN, f \in BOOLEAN }
  /\ pc = "sync"
  /\ IdleRun

NextSync ==
  \/ SyncFetch
  \/ SyncList
  \/ SyncStep
  \/ SyncAbort
  \/ SyncSummary
  \/ SyncAgain

SpecSync == InitSync /\ [][NextSync]_vars

\* After a dry run of clean has returned, the user runs clean again with
\* the same options but without --dry-run; what the preview listed is kept
\* in prev.
CleanAgain ==
  /\ pc = "done"
  /\ result = "ok"
  /\ opts.dry_run
  /\ ~ prev.ran
  /\ prev' = [ ran |-> TRUE, opts |-> opts, log |-> log, candidates |-> candidates,
               candidates_with_dirty |-> candidates_with_dirty ]
  /\ opts' = [ opts EXCEPT !.dry_run = FALSE ]
  /\ pc' = "clean"
  /\ result' = "running"
  /\ log' = << >>
  /\ worktrees' = << >>
  /\ statuses' = None
  /\ candidates' = << >>
  /\ candidates_with_dirty' = << >>
  /\ clean_candidates' = << >>
  /\ UNCHANGED <<envVars, refs0, gate, removed, syncVars, idx, merged_call, agg,
                 arg, ret, children>>

\* Preview then real run: worktrees merged or not, gone or not, clean or
\* dirty, every filter, with and without --yes and a terminal.
PreviewProfiles ==
  { Profile("branch", FALSE, t, "none", 0, Some(YoungAge), d) :
      t \in { MergedTip, ForkTip }, d \in BOOLEAN }
  \cup { Profile("branch", FALSE, ForkTip, "gone", 0, Some(OldAge), FALSE) }

InitPreview ==
  /\ InitRepo(PreviewProfiles, CleanMains, MaxSyncLinked)
  /\ tty \in BOOLEAN
  /\ opts \in { [ o EXCEPT !.dry_run = TRUE, !.yes = y ] : o \in FilterOpts, y \in BOOLEAN }
  /\ pc = "clean"
  /\ IdleRun

NextPreview ==
  \/ CleanSelect
  \/ CleanDirty
  \/ CleanGate
  \/ CleanRemove
  \/ CleanFinish
  \/ CleanAgain

SpecPreview == InitPreview /\ [][NextPreview]_vars

\* ------------------------------------ clean and sync, subprocesses unfolded
\* Command::output() is a spawn followed by a wait: between the two the
\* child is running, and it changes the disk when it exits.  A child is
\* the command it runs and the worktree it runs on.
Child(cmd, path) == [ cmd |-> cmd, path |-> path ]

\* Command::spawn(): the caller goes on while the child runs.
output_returns_at_once(child, running) == TRUE

\* Command::output(): returns once the child has exited.
output_returns(child, running) == child \notin running

\* The exit status output() hands back: the last one the child left (a
\* child that has not exited has left none, which reads as success).
exit_status(child) ==
  LET ks == { k \in DOMAIN log : log[k].cmd = child.cmd /\ log[k].path = child.path }
  IN  IF ks = {} THEN "ok" ELSE log[CHOOSE k \in ks : \A j \in ks : j <= k].outcome

\* A running child exits: git has done its work on the disk.
ChildExit ==
  /\ \E c \in children :
       LET f == FactsAt(c.path)
       IN  \E outcome \in { "ok", "fail" } :
             LET o == IF c.cmd = "rebase" /\ outcome = "fail" THEN "conflict" ELSE outcome
             IN  /\ children' = children \ { c }
                 /\ log' = Append(log, [ cmd |-> c.cmd, path |-> c.path, outcome |-> o ])
                 /\ linked' = IF c.cmd = "remove"
                              THEN IF o = "ok" THEN RemoveFromDisk(c.path) ELSE linked
                              ELSE IF c.cmd = "rebase"
                              THEN LinkedWith(c.path, AfterRebase(f, o))
                              ELSE LinkedWith(c.path, AfterAbort(f, o))
                 /\ mainw' = IF c.cmd = "rebase" THEN MainWith(c.path, AfterRebase(f, o))
                             ELSE IF c.cmd = "rebase_abort"
                             THEN MainWith(c.path, AfterAbort(f, o))
                             ELSE mainw
                 /\ refs' = IF c.cmd = "rebase" THEN RefsAfterRebase(f, o) ELSE refs
  /\ UNCHANGED <<parents, cwd, tty, opts, pc, result, worktrees, statuses, refs0, prev,
                 cleanVars, syncVars, idx, merged_call, agg, arg, ret>>

\* get_all_statuses has joined its tasks.  sync enters its loop; clean
\* selects its candidates (clean.rs 41-108).
FlightCollect ==
  /\ pc = "statuses_par"
  /\ \A i \in DOMAIN worktrees : agg.slots[i] # None
  /\ LET sts == Some(collect(worktrees, agg.slots, agg.finished))
         Keep(wt) == clean_filter(opts, sts, cwd, Repo, wt)
         cands == IF arg = Some("clean") THEN SelectSeq(worktrees, Keep) ELSE << >>
     IN  /\ statuses' = sts
         /\ candidates' = cands
         /\ IF arg = Some("sync") THEN pc' = "sync_loop" /\ result' = result
            ELSE IF cands = << >> THEN pc' = "done" /\ result' = "ok"
            ELSE pc' = "clean_dirty" /\ result' = result
  /\ idx' = 1
  /\ UNCHANGED <<envVars, opts, log, worktrees, refs0, prev, candidates_with_dirty,
                 clean_candidates, gate, removed, syncVars, merged_call, agg, arg, ret,
                 children>>

\* sync.rs execute, a turn of the loop that ends in `continue` before the
\* rebase.
FlightSkip ==
  /\ pc = "sync_loop"
  /\ idx <= Len(Unwrap(statuses))
  /\ LET wt == CurrentPair[1]
         class == sync_class(wt, CurrentPair[2], Repo, opts.dry_run)
     IN  /\ class # "rebase"
         /\ synced' = IF class = "would" THEN Append(synced, wt.path) ELSE synced
         /\ skipped_dirty' = IF class = "dirty" THEN Append(skipped_dirty, wt.path)
                             ELSE skipped_dirty
         /\ skipped_no_upstream' = IF class = "no_upstream"
                                   THEN Append(skipped_no_upstream, wt.path)
                                   ELSE skipped_no_upstream
  /\ idx' = idx + 1
  /\ UNCHANGED <<envVars, runVars, cleanVars, failed, merged_call, agg, arg, ret,
                 children>>

\* sync.rs execute, `Command::new("git")...args(["rebase"]).output()`, the
\* spawn: the child runs, or git could not be started.
RebaseSpawn ==
  /\ pc = "sync_loop"
  /\ idx <= Len(Unwrap(statuses))
  /\ LET wt == CurrentPair[1]
         c == Child("rebase", wt.path)
     IN  /\ sync_class(wt, CurrentPair[2], Repo, opts.dry_run) = "rebase"
         /\ \E started \in BOOLEAN :
              IF started
              THEN /\ children' = children \cup { c }
                   /\ ret' = Some(c)
                   /\ pc' = "sync_rebase"
                   /\ UNCHANGED <<log, result>>
              ELSE /\ log' = Append(log, [ cmd |-> "rebase", path |-> wt.path,
                                           outcome |-> "spawn" ])
                   /\ pc' = "done"
                   /\ result' = "err"
                   /\ UNCHANGED <<children, ret>>
  /\ UNCHANGED <<envVars, opts, worktrees, statuses, refs0, prev, cleanVars, syncVars,
                 idx, merged_call, agg, arg>>

\* sync.rs execute, output() of the rebase has returned: success counts
\* synced, anything else goes on to the abort.
RebaseReturn ==
  /\ pc = "sync_rebase"
  /\ output_returns(Unwrap(ret), children)
  /\ LET next == after_rebase(exit_status(Unwrap(ret)))
     IN  /\ synced' = IF next.count = "synced" THEN Append(synced, Unwrap(ret).path)
                      ELSE synced
         /\ pc' = next.pc
         /\ idx' = IF next.pc = "sync_loop" THEN idx + 1 ELSE idx
  /\ UNCHANGED <<envVars, opts, result, log, worktrees, statuses, refs0, prev,
                 cleanVars, skipped_dirty, skipped_no_upstream, failed, merged_call,
                 agg, arg, ret, children>>

\* sync.rs execute, `git rebase --abort` ... `.output()`, the spawn; when
\* git cannot be started the error is dropped with the rest of the result.
AbortSpawn ==
  /\ pc = "sync_abort"
  /\ LET c == Child("rebase_abort", CurrentPair[1].path)
     IN  \E started \in BOOLEAN :
           /\ children' = IF started THEN children \cup { c } ELSE children
           /\ log' = IF started THEN log
                     ELSE Append(log, [ cmd |-> "rebase_abort", path |-> c.path,
                                        outcome |-> "spawn" ])
           /\ ret' = Some(c)
  /\ pc' = "sync_aborting"
  /\ UNCHANGED <<envVars, opts, result, worktrees, statuses, refs0, prev, cleanVars,
                 syncVars, idx, merged_call, agg, arg>>

\* sync.rs execute, output() of the abort has returned: failed += 1.
AbortReturn ==
  /\ pc = "sync_aborting"
  /\ output_returns(Unwrap(ret), children)
  /\ failed' = Append(failed, Unwrap(ret).path)
  /\ idx' = idx + 1
  /\ pc' = "sync_loop"
  /\ UNCHANGED <<envVars, opts, result, log, worktrees, statuses, refs0, prev,
                 cleanVars, synced, skipped_dirty, skipped_no_upstream, merged_call,
                 agg, arg, ret, children>>

\* clean.rs execute, the removal loop, `git worktree remove` ...
\* `.output()`, the spawn; a path that is not text and a git that cannot
\* be started return the error.
RemoveSpawn ==
  /\ pc = "clean_remove"
  /\ idx <= Len(clean_candidates)
  /\ LET c == Child("remove", clean_candidates[idx].path)
     IN  \E outcome \in { "started", "spawn", "badpath" } :
           /\ children' = IF outcome = "started" THEN children \cup { c } ELSE children
           /\ ret' = IF outcome = "started" THEN Some(c) ELSE ret
           /\ log' = IF outcome = "spawn"
                     THEN Append(log, [ cmd |-> "remove", path |-> c.path,
                                        outcome |-> "spawn" ])
                     ELSE log
           /\ IF after_remove(outcome).returns
              THEN pc' = "done" /\ result' = "err"
              ELSE pc' = "clean_removing" /\ result' = result
  /\ UNCHANGED <<envVars, opts, worktrees, statuses, refs0, prev, cleanVars, syncVars,
                 idx, merged_call, agg, arg>>

\* clean.rs execute, output() of the removal has returned: exit zero
\* counts, and the loop goes on either way.
RemoveReturn ==
  /\ pc = "clean_removing"
  /\ output_returns(Unwrap(ret), children)
  /\ removed' = IF after_remove(exit_status(Unwrap(ret))).counted
                THEN removed + 1 ELSE removed
  /\ idx' = idx + 1
  /\ pc' = "clean_remove"
  /\ UNCHANGED <<envVars, opts, result, log, worktrees, statuses, refs0, prev,
                 candidates, candidates_with_dirty, clean_candidates, gate, syncVars,
                 merged_call, agg, arg, ret, children>>

\* Worktrees behind their upstream (sync rebases them), with an upstream
\* that is gone (clean --gone removes them), and one that is dirty.
FlightProfiles ==
  { Profile("branch", FALSE, MergedTip, "ok", MaxBehind, Some(YoungAge), FALSE),
    Profile("branch", FALSE, ForkTip, "gone", 0, Some(YoungAge), FALSE),
    Profile("branch", FALSE, ForkTip, "gone", 0, Some(YoungAge), TRUE) }

InitFlight ==
  /\ InitRepo(FlightProfiles, SyncMains, MaxSyncLinked)
  /\ tty = FALSE
  /\ arg \in { Some("clean"), Some("sync") }
  /\ opts \in IF arg = Some("clean")
              THEN { [ NoOpts EXCEPT !.gone = TRUE, !.merged = m, !.yes = TRUE ] :
                       m \in BOOLEAN }
              ELSE { NoOpts }
  /\ pc = "statuses"
  /\ IdleCall

NextFlight ==
  \/ StatusStart
  \/ StatusTask
  \/ FlightCollect
  \/ CleanDirty
  \/ CleanGate
  \/ RemoveSpawn
  \/ RemoveReturn
  \/ CleanFinish
  \/ FlightSkip
  \/ RebaseSpawn
  \/ RebaseReturn
  \/ AbortSpawn
  \/ AbortReturn
  \/ SyncSummary
  \/ ChildExit

SpecFlight == InitFlight /\ [][NextFlight]_vars

\* clean and sync over repositories that hold worktrees which cannot be
\* opened, whose administrative entries are merged, gone, old and behind.
PrunableProfiles ==
  { Profile("broken", FALSE, MergedTip, u, MaxBehind, Some(OldAge), FALSE) :
      u \in { "gone", "ok" } }
  \cup { Profile("branch", FALSE, MergedTip, "ok", MaxBehind, Some(OldAge), FALSE),
         Profile("branch", FALSE, ForkTip, "gone", 0, Some(YoungAge), FALSE) }

InitPrunable ==
  /\ InitRepo(PrunableProfiles, SyncMains, MaxSyncLinked)
  /\ tty = FALSE
  /\ pc \in { "clean", "sync" }
  /\ arg = Some(pc)
  /\ opts \in IF pc = "clean"
              THEN { [ o EXCEPT !.yes = TRUE ] : o \in FilterOpts }
              ELSE { [ NoOpts EXCEPT !.fetch = f ] : f \in BOOLEAN }
  /\ IdleCall

NextPrunable ==
  \/ CleanSelect
  \/ CleanDirty
  \/ CleanGate
  \/ CleanRemove
  \/ CleanFinish
  \/ SyncFetch
  \/ SyncList
  \/ SyncStep
  \/ SyncAbort
  \/ SyncSummary

SpecPrunable == InitPrunable /\ [][NextPrunable]_vars

\* --------------------------------------------------- claims about clean
Removals == { k \in DOMAIN log : log[k].cmd = "remove" }
Selected == pc # "clean"

\* C1 (as stated): the candidate set never holds the worktree at the
\* current directory, the main worktree, a detached worktree or a worktree
\* on the base branch, wherever the process was started.
C1_Original ==
  Selected =>
    \A i \in DOMAIN candidates :
      /\ candidates[i].path # cwd
      /\ candidates[i].path # mainw.path
      /\ FactsAt(candidates[i].path).head # "detached"
      /\ ~ ( FactsAt(candidates[i].path).head = "branch"
             /\ FactsAt(candidates[i].path).branch = Base )

\* What the filters mean on disk, for a worktree of the list.
MergedOnDisk(wt) ==
  /\ wt.branch_short # None
  /\ LET b == Unwrap(wt.branch_short)
     IN  /\ b \in DOMAIN refs /\ refs[b] # None
         /\ \/ refs[Base] # None /\ ProperAncestor(Unwrap(refs[b]), Unwrap(refs[Base]))
            \/ /\ refs[RemoteBase(Base)] # None
               /\ ProperAncestor(Unwrap(refs[b]), Unwrap(refs[RemoteBase(Base)]))
GoneOnDisk(wt) ==
  \E i \in DOMAIN AllFacts :
    /\ AllFacts[i].path = wt.path
    /\ AllFacts[i].head = "branch" /\ AllFacts[i].up = "gone"
StaleOnDisk(wt, days) ==
  \E i \in DOMAIN AllFacts :
    /\ AllFacts[i].path = wt.path
    /\ AllFacts[i].head # "broken"
    /\ AllFacts[i].age # None /\ Unwrap(AllFacts[i].age) > days * SecondsPerDay
PassesExclusions(wt) ==
  /\ wt.path # cwd
  /\ ~ is_main_worktree(wt, Repo)
  /\ ~ wt.detached
  /\ wt.branch_short # Some(Base)
Eligible(wt) ==
  /\ PassesExclusions(wt)
  /\ \/ opts.merged /\ MergedOnDisk(wt)
     \/ opts.gone /\ GoneOnDisk(wt)
     \/ opts.stale_days # None /\ StaleOnDisk(wt, Unwrap(opts.stale_days))

\* C9: the candidates are, in input order, exactly the listed worktrees
\* that pass the four exclusions and match at least one filter that is
\* switched on.
C9_CandidatesAreTheMatches ==
  Selected => candidates = SelectSeq(worktrees, Eligible)

\* merged and gone on: A merged, B upstream-gone, C neither -> <<A, B>>.
C9_Witness ==
  /\ Selected
  /\ opts.merged /\ opts.gone /\ opts.stale_days = None
  /\ Len(linked) = 3
  /\ cwd = MainPath
  /\ MergedOnDisk(worktrees[1]) /\ ~ GoneOnDisk(worktrees[1])
  /\ GoneOnDisk(worktrees[2]) /\ ~ MergedOnDisk(worktrees[2])
  /\ worktrees[3].branch_short # None /\ PassesExclusions(worktrees[3])
  /\ ~ MergedOnDisk(worktrees[3]) /\ ~ GoneOnDisk(worktrees[3])
  /\ candidates = << worktrees[1], worktrees[2] >>

\* C2: no removal is issued for a candidate the dirty check found dirty;
\* every candidate, dirty or not, is in the reported list with the flag
\* the disk gives it; and when every candidate is dirty nothing is removed.
C2_DirtyNeverRemoved ==
  /\ \A k \in Removals :
       \E i \in DOMAIN candidates_with_dirty :
         /\ candidates_with_dirty[i][1].path = log[k].path
         /\ ~ candidates_with_dirty[i][2]
  /\ pc \notin { "clean", "clean_dirty" } /\ candidates # << >> =>
       /\ Len(candidates_with_dirty) = Len(candidates)
       /\ \A i \in DOMAIN candidates :
            /\ candidates_with_dirty[i][1] = candidates[i]
            /\ Removals = {} =>
                 candidates_with_dirty[i][2] = FactsAt(candidates[i].path).dirty
  /\ ( candidates_with_dirty # << >>
       /\ \A i \in DOMAIN candidates_with_dirty : candidates_with_dirty[i][2] ) =>
       Removals = {}

\* A dirty candidate was listed and skipped while a clean one was removed.
C2_Witness ==
  /\ pc = "done"
  /\ \E i \in DOMAIN candidates_with_dirty : candidates_with_dirty[i][2]
  /\ \E k \in Removals : log[k].outcome = "ok"

HasCleanCandidate ==
  \E i \in DOMAIN candidates_with_dirty : ~ candidates_with_dirty[i][2]

\* C3 (as stated): a removal is issued only after --yes or an affirmative
\* answer on a terminal; with a clean candidate, no --yes and no terminal
\* the invocation returns an error and nothing was removed.
C3_Original ==
  /\ Removals # {} => opts.yes \/ (tty /\ gate = "confirmed")
  /\ ( pc = "done" /\ HasCleanCandidate /\ ~ opts.yes /\ ~ tty ) =>
       result = "err" /\ Removals = {}

\* C3 (amended): as stated, for a run that is not a dry run; a dry run
\* with a clean candidate, no --yes and no terminal returns Ok after
\* listing the candidates.
C3_GateFailsClosed ==
  /\ Removals # {} => opts.yes \/ (tty /\ gate = "confirmed")
  /\ ( pc = "done" /\ HasCleanCandidate /\ ~ opts.yes /\ ~ tty /\ ~ opts.dry_run ) =>
       result = "err" /\ Removals = {}

\* The refusal: a clean candidate, no --yes, no terminal, an error.
C3_Witness ==
  /\ pc = "done" /\ result = "err" /\ gate = "refused"
  /\ HasCleanCandidate /\ ~ opts.yes /\ ~ tty /\ Removals = {}

\* ---------------------------------------------------- claims about sync
Pairs == IF statuses = None THEN << >> ELSE Unwrap(statuses)
Rebases == { k \in DOMAIN log : log[k].cmd = "rebase" }
FailedRebases == { k \in Rebases : log[k].outcome \in { "conflict", "refused" } }
Times(seq, path) == Cardinality({ k \in DOMAIN seq : seq[k] = path })
InSeq(seq, path) == Times(seq, path) > 0
SyncReturned == pc = "done" /\ statuses # None

\* C4 (as stated): when sync returns, no worktree it touched is in the
\* middle of a rebase, and a worktree whose rebase failed has the branch
\* pointer it had before, whatever the rebase and the abort subprocesses
\* did.
C4_Original ==
  SyncReturned =>
    \A k \in Rebases :
      /\ ~ FactsAt(log[k].path).mid
      /\ InSeq(failed, log[k].path) =>
           refs[FactsAt(log[k].path).branch] = refs0[FactsAt(log[k].path).branch]

RuleOf(wt, status, mainPaths) ==
  IF wt.path \in mainPaths \/ FactsAt(wt.path).head = "detached" THEN "skip"
  ELSE IF status.upstream = None THEN "no_upstream"
  ELSE IF status.behind \in { None, Some(0) } THEN "skip"
  ELSE IF FactsAt(wt.path).dirty THEN "dirty"
  ELSE IF opts.dry_run THEN "would"
  ELSE "rebase"

Handled(j) == j < idx \/ ( pc = "done" /\ result = "ok" )
RebaseOf(path) == { k \in Rebases : log[k].path = path }

\* Every worktree the loop has handled was classified by the first rule
\* that applies, is counted in at most one counter and at most once, and
\* was rebased only if it reached the last rule in a run that is not a dry
\* run.
FirstRuleWins(mainPaths) ==
  \A j \in DOMAIN Pairs :
    LET wt == Pairs[j][1]
        rule == RuleOf(wt, Pairs[j][2], mainPaths)
        p == wt.path
        n_synced == Times(synced, p)
        n_dirty == Times(skipped_dirty, p)
        n_noup == Times(skipped_no_upstream, p)
        n_failed == Times(failed, p)
    IN  /\ n_synced + n_dirty + n_noup + n_failed <= 1
        /\ RebaseOf(p) # {} => rule = "rebase" /\ ~ opts.dry_run
        /\ Cardinality(RebaseOf(p)) <= 1
        /\ ~ Handled(j) /\ ~ ( j = idx /\ pc = "done" ) =>
             n_synced + n_dirty + n_noup + n_failed = 0
        /\ Handled(j) =>
             /\ rule = "skip" => n_synced + n_dirty + n_noup + n_failed = 0
             /\ rule = "no_upstream" => n_noup = 1
             /\ rule = "dirty" => n_dirty = 1
             /\ rule = "would" => n_synced = 1
             /\ rule = "rebase" =>
                  \E k \in RebaseOf(p) :
                    IF log[k].outcome = "ok" THEN n_synced = 1 ELSE n_failed = 1

\* C6 (as stated): sync classifies each worktree by the first rule that
\* applies, in the order main or detached (nothing counted), no upstream
\* (skipped_no_upstream), not behind (nothing counted), dirty
\* (skipped_dirty), otherwise synced or failed; at most one counter per
\* worktree; a rebase only at the last rule of a run that is not a dry run.
\* The main worktree is the repository's main checkout.
C6_Original == FirstRuleWins({ mainw.path })

\* The same order with "main" read as the code's own test: it holds, so the
\* order of the rules is the stated one and only the main test differs.
RuleOrderWithCodeMainTest ==
  FirstRuleWins({ Pairs[j][1].path : j \in { i \in DOMAIN Pairs :
                                              is_main_worktree(Pairs[i][1], Repo) } })

StateChanging == { "fetch", "rebase", "rebase_abort", "remove" }

\* C7 (as stated): a dry run of sync starts no subprocess that changes
\* state, --fetch given or not, and leaves every ref where it was.
C7_Original ==
  opts.dry_run =>
    /\ \A k \in DOMAIN log : log[k].cmd \notin StateChanging
    /\ refs = refs0

RECURSIVE LogPaths(_, _)
LogPaths(l, cmd) ==
  IF l = << >> THEN << >>
  ELSE IF Head(l).cmd = cmd THEN << Head(l).path >> \o LogPaths(Tail(l), cmd)
  ELSE LogPaths(Tail(l), cmd)

Range(seq) == { seq[k] : k \in DOMAIN seq }

\* C8: a dry run followed by a real run on the same repository, both
\* reaching the summary: the two skipped counters agree, and the worktrees
\* the dry run reported as synced are the ones the real run tried to
\* rebase, each of which the real run counted synced or failed.
C8_DryRunPredicts ==
  ( prev.ran /\ pc = "done" /\ result = "ok" ) =>
    /\ prev.opts.dry_run /\ ~ opts.dry_run
    /\ skipped_dirty = prev.skipped_dirty
    /\ skipped_no_upstream = prev.skipped_no_upstream
    /\ prev.failed = << >>
    /\ prev.synced = LogPaths(log, "rebase")
    /\ Range(prev.synced) = Range(synced) \cup Range(failed)
    /\ Len(prev.synced) = Len(synced) + Len(failed)

C8_Witness ==
  /\ prev.ran /\ pc = "done" /\ result = "ok"
  /\ Len(prev.synced) = 1 /\ Len(failed) = 1
  /\ Len(skipped_dirty) = 1

\* --------------------------------------------- claims about clean, again
AgeOnDisk(wt) ==
  IF Exists(wt.path) THEN FactsAt(wt.path).age ELSE None
IsCandidate(wt) == \E i \in DOMAIN candidates : candidates[i] = wt

\* C11: with --stale N as the only filter, a listed worktree that passes
\* the exclusions is a candidate exactly when its last commit has an age
\* and that age in seconds is strictly greater than N * 86400: N+1 days is
\* stale, N-1 days and exactly N days are not, and no age is never stale.
C11_StaleIsStrictlyOlder ==
  ( Selected /\ opts.stale_days # None /\ ~ opts.merged /\ ~ opts.gone ) =>
    LET N == Unwrap(opts.stale_days)
    IN  \A i \in DOMAIN worktrees :
          LET wt == worktrees[i]
              age == AgeOnDisk(wt)
          IN  PassesExclusions(wt) =>
                /\ IsCandidate(wt) <=> ( age # None /\ Unwrap(age) > N * SecondsPerDay )
                /\ age = None => ~ IsCandidate(wt)
                /\ age = DaysOld(N + 1) => IsCandidate(wt)
                /\ age = DaysOld(N - 1) => ~ IsCandidate(wt)
                /\ age = DaysOld(N) => ~ IsCandidate(wt)

\* A run from the main checkout over three worktrees exactly N days, N
\* days and a second, and no age at all: only the second is a candidate.
C11_Witness ==
  /\ Selected /\ cwd = MainPath
  /\ opts.stale_days = Some(StaleChoice)
  /\ Len(worktrees) = 4
  /\ AgeOnDisk(worktrees[1]) = DaysOld(StaleChoice)
  /\ AgeOnDisk(worktrees[2]) = Some(StaleChoice * SecondsPerDay + 1)
  /\ AgeOnDisk(worktrees[3]) = None
  /\ candidates = << worktrees[2] >>

GatePassed == gate \in { "bypass", "confirmed" }
CleanPaths == [ i \in DOMAIN clean_candidates |-> clean_candidates[i].path ]
RemovalsOk == { k \in Removals : log[k].outcome = "ok" }

\* C12: a removal that exits non-zero does not end the loop: the loop
\* moves on to the next clean candidate, the removals are attempted in the
\* order of the clean candidates, and the count of the summary is the
\* number of removals that exited zero, never more than the number of
\* clean candidates.
C12_FailedRemovalGoesOn ==
  /\ LogPaths(log, "remove") = SubSeq(CleanPaths, 1, Cardinality(Removals))
  /\ ( log # << >> /\ log[Len(log)].cmd = "remove" /\ log[Len(log)].outcome = "fail" ) =>
       /\ idx = Len(log) + 1
       /\ \/ pc = "clean_remove"
          \/ pc = "done" /\ result = "ok" /\ idx > Len(clean_candidates)
          \/ pc = "done" /\ result = "err" /\ idx <= Len(clean_candidates)
  /\ removed = Cardinality(RemovalsOk)
  /\ removed <= Len(clean_candidates)
  /\ ( pc = "done" /\ result = "ok" /\ GatePassed ) =>
       Cardinality(Removals) = Len(clean_candidates)

\* The first removal exits non-zero, the second and third are attempted
\* and one of them succeeds.
C12_Witness ==
  /\ pc = "done" /\ result = "ok" /\ GatePassed
  /\ Len(clean_candidates) = 3 /\ Len(log) = 3
  /\ log[1].outcome = "fail" /\ log[2].outcome = "ok" /\ log[3].outcome = "fail"
  /\ removed = 1

\* C13 (as stated): a candidate whose path is not text, or whose removal
\* subprocess cannot be started, fails alone: once the gate is passed every
\* clean candidate is attempted and the run ends with its summary.
C13_Original ==
  ( pc = "done" /\ GatePassed ) =>
    /\ result = "ok"
    /\ idx > Len(clean_candidates)

\* C15 (as stated): whenever the gate is not satisfied, a declined prompt
\* included, the run ends in an error and nothing was removed.
C15_Original ==
  ( pc = "done" /\ gate \in { "declined", "refused", "prompt_error" } ) =>
    /\ result = "err"
    /\ Removals = {}

\* ---------------------------------------------- claims about sync, again
\* C14 (as stated): a rebase that fails, by a non-zero exit or by not
\* running at all, never keeps the later worktrees from being handled:
\* once the worktrees are listed, sync returns through its summary with
\* every worktree of the list handled.
C14_Original ==
  SyncReturned =>
    /\ result = "ok"
    /\ idx > Len(Pairs)

\* ------------------------------------------------- claims about statuses
Collected == pc = "done" /\ statuses # None

\* C16: whatever the order in which the parallel tasks finish, the
\* aggregation returns one pair per input worktree, the i-th pair holding
\* the i-th input worktree and that worktree's own status, which is the
\* all-default status for a worktree that cannot be opened.
C16_OnePairPerWorktreeInOrder ==
  Collected =>
    /\ Len(Pairs) = Len(worktrees)
    /\ \A i \in DOMAIN worktrees :
         /\ Pairs[i][1] = worktrees[i]
         /\ Pairs[i][2] = get_worktree_status_full(worktrees[i])
         /\ ~ Exists(worktrees[i].path) => Pairs[i][2] = DefaultStatus
         /\ Exists(worktrees[i].path) =>
              /\ Pairs[i][2].last_commit_time = FactsAt(worktrees[i].path).age
              /\ Pairs[i][2].dirty_count > 0 <=> FactsAt(worktrees[i].path).dirty
    /\ Pairs = get_all_statuses(worktrees)

\* Three worktrees whose tasks finish last-first; the first cannot be
\* opened, the second is dirty, the third (the main checkout) is neither.
C16_Witness ==
  /\ Collected
  /\ Len(worktrees) = 3
  /\ agg.finished = << 3, 2, 1 >>
  /\ ~ Exists(worktrees[1].path) /\ Pairs[1][2] = DefaultStatus
  /\ Pairs[2][2].dirty_count > 0
  /\ Pairs[3][2] # DefaultStatus /\ Pairs[3][2].dirty_count = 0

Unreadable(wt) == ~ Exists(wt.path)

\* C19 (as stated): in every status the aggregation produces for a
\* detached or unreadable worktree, the optional fields (upstream, ahead,
\* behind, last-commit age, behind-main, untracked commits) are all absent.
C19_Original ==
  Collected =>
    \A i \in DOMAIN Pairs :
      ( Pairs[i][1].detached \/ Unreadable(Pairs[i][1]) ) =>
        /\ Pairs[i][2].upstream = None
        /\ Pairs[i][2].ahead = None
        /\ Pairs[i][2].behind = None
        /\ Pairs[i][2].last_commit_time = None
        /\ Pairs[i][2].behind_main = None
        /\ Pairs[i][2].untracked_commits = None

\* C20: for a worktree that is not detached and can be opened: without an
\* upstream, ahead and behind are absent and upstream_gone is false; with
\* an upstream that resolves to no commit, or to which the distance cannot
\* be computed, upstream_gone is true and ahead and behind are absent;
\* otherwise ahead and behind are both present and upstream_gone is false.
\* In every status upstream_gone is never true with ahead or behind
\* present, and ahead is present exactly when behind is.
C20_UpstreamFields ==
  Collected =>
    \A i \in DOMAIN Pairs :
      LET wt == Pairs[i][1]
          st == Pairs[i][2]
      IN  /\ ( ~ wt.detached /\ ~ Unreadable(wt) ) =>
                LET f == FactsAt(wt.path)
                IN  /\ f.up = "none" =>
                         st.ahead = None /\ st.behind = None /\ ~ st.upstream_gone
                    /\ f.up \in { "gone", "nograph" } =>
                         st.ahead = None /\ st.behind = None /\ st.upstream_gone
                    /\ f.up = "ok" =>
                         /\ st.ahead = Some(f.ahead) /\ st.behind = Some(f.behind)
                         /\ ~ st.upstream_gone
          /\ st.upstream_gone => st.ahead = None /\ st.behind = None
          /\ st.ahead # None <=> st.behind # None

\* One upstream gone, one without a computable distance, one behind.
C20_Witness ==
  /\ Collected
  /\ Len(Pairs) = 3
  /\ FactsAt(Pairs[1][1].path).up = "gone" /\ Pairs[1][2].upstream_gone
  /\ FactsAt(Pairs[2][1].path).up = "nograph" /\ Pairs[2][2].upstream_gone
  /\ Pairs[3][2].behind = Some(1) /\ Pairs[3][2].ahead = Some(0)

\* ---------------------------------------------- claims about enumeration
MainEntries == { i \in DOMAIN worktrees : is_main_worktree(worktrees[i], Repo) }

C18_Original ==
  pc = "done" =>
    /\ result = "ok"
    /\ Len(worktrees) = Len(linked) + 1
    /\ \A i \in DOMAIN linked :
         /\ worktrees[i].path = linked[i].path
         /\ worktrees[i].prunable <=> linked[i].head \in { "broken", "nolookup" }
    /\ worktrees[Len(worktrees)].path = mainw.path

\* --------------------------------------------------- claims about lookup
\* C21 (as stated): find_worktree returns the first worktree of the list
\* whose lookup identity (its short branch name if it has one, otherwise
\* the final segment of its path) is the name, and nothing when no
\* worktree of the list has that identity.
C21_Original ==
  ( pc = "done" /\ result = "ok" ) =>
    LET hits == { i \in DOMAIN worktrees : name(worktrees[i]) = arg }
    IN  IF hits = {} THEN ret = None
        ELSE ret = Some(worktrees[CHOOSE i \in hits : \A j \in hits : i <= j])

\* ----------------------------------------------------- claims about slugs
\* C23: the slug of a branch name is the name with every character that
\* is not alphanumeric, '-' or '_' replaced by '-' and the leading and
\* trailing '-' stripped: it holds only alphanumerics, '-' and '_', does
\* not start or end with '-', and is its own slug; feat/login gives
\* feat-login.
C23_SlugIsCleanAndIdempotent ==
  ( pc = "done" /\ ret # None ) =>
    LET slug == Unwrap(ret)
        mapped == [ i \in DOMAIN arg |->
                      IF arg[i] \in Alphanumeric \cup { "-", "_" } THEN arg[i] ELSE "-" ]
    IN  /\ \A i \in DOMAIN slug : slug[i] \in Alphanumeric \cup { "-", "_" }
        /\ slug # << >> => slug[1] # "-" /\ slug[Len(slug)] # "-"
        /\ slug_from_branch(slug) = slug
        /\ \E a \in 0 .. Len(arg) : \E b \in a .. Len(arg) :
             /\ slug = SubSeq(mapped, a + 1, b)
             /\ \A i \in ( 1 .. a ) \cup ( ( b + 1 ) .. Len(arg) ) : mapped[i] = "-"
        /\ arg = FeatLogin =>
             slug = << "f", "e", "a", "t", "-", "l", "o", "g", "i", "n" >>

\* A name that is replaced inside and stripped at both ends.
C23_Witness ==
  /\ pc = "done"
  /\ arg = << "/", "a", " ", "-" >>
  /\ ret = Some(<< "a" >>)

\* ------------------------------------------------------- claims about rm
RmTarget == Unwrap(ret).path

\* C26 (as stated): rm issues the removal only for a worktree that the
\* name finds, that is not at the current directory, that is not the main
\* worktree, and that is clean unless --force was given; otherwise it
\* returns an error and nothing is removed; the branch is deleted only
\* after the removal has succeeded.
C26_Original ==
  /\ pc \in { "rm_gate", "rm_remove" } =>
       /\ ret # None
       /\ RmTarget # cwd
       /\ RmTarget # mainw.path
       /\ ~ FactsAt(RmTarget).dirty \/ opts.force
  /\ \A k \in Removals :
       /\ ret # None /\ log[k].path = RmTarget
       /\ RmTarget # cwd
       /\ RmTarget # mainw.path
  /\ ( pc = "done" /\ RemovalsOk = {} ) => result = "err" /\ removed = 0
  /\ \A k \in DOMAIN log :
       log[k].cmd = "branch_delete" => k - 1 \in RemovalsOk

\* C27 (as stated): rm issues the removal only after --yes or an
\* affirmative answer to the prompt; without --yes and without a terminal,
\* and when the prompt is declined, rm ends in an error and nothing is
\* removed.
C27_Original ==
  /\ ( pc = "rm_remove" \/ Removals # {} ) => opts.yes \/ gate = "confirmed"
  /\ ( pc = "done" /\ ~ opts.yes /\ ( ~ tty \/ gate = "declined" ) ) =>
       result = "err" /\ Removals = {}

\* -------------------------------------------- claims about prunable stubs
PrunablePaths == { worktrees[i].path : i \in { j \in DOMAIN worktrees : worktrees[j].prunable } }
Mutating == { "remove", "rebase", "rebase_abort" }

\* C24: no removal, rebase or rebase-abort is ever issued against a
\* prunable worktree; under no combination of --merged, --gone and --stale
\* is a prunable worktree a candidate of clean; and sync counts every
\* prunable worktree it has handled in skipped_no_upstream, once.
C24_PrunableIsLeftAlone ==
  /\ \A k \in DOMAIN log : log[k].cmd \in Mutating => log[k].path \notin PrunablePaths
  /\ \A i \in DOMAIN candidates : candidates[i].path \notin PrunablePaths
  /\ \A i \in DOMAIN clean_candidates : clean_candidates[i].path \notin PrunablePaths
  /\ ( arg = Some("sync") /\ statuses # None ) =>
       \A j \in DOMAIN worktrees :
         ( Handled(j) /\ worktrees[j].prunable ) =>
           /\ Times(skipped_no_upstream, worktrees[j].path) = 1
           /\ ~ InSeq(synced, worktrees[j].path)
           /\ ~ InSeq(failed, worktrees[j].path)
           /\ ~ InSeq(skipped_dirty, worktrees[j].path)

\* clean with every filter on has removed a worktree and left alone a
\* prunable one whose entry is merged, gone and old.
C24_Witness ==
  /\ arg = Some("clean")
  /\ pc = "done"
  /\ opts.merged /\ opts.gone /\ opts.stale_days # None
  /\ RemovalsOk # {}
  /\ \E p \in PrunablePaths : FactsAt(p).up = "gone" /\ FactsAt(p).age = Some(OldAge)

\* ------------------------------------------- claims about clean --dry-run
\* C25: a dry run of clean issues no removal, never reaches the gate and
\* returns Ok, whatever the filters, --yes and the terminal; and the
\* candidates it lists, with their dirty marks, are the ones a real run
\* with the same inputs selects.
C25_PreviewIsSafeAndExact ==
  /\ opts.dry_run =>
       /\ log = << >>
       /\ removed = 0
       /\ gate = "none"
       /\ pc \in { "clean", "clean_dirty", "done" }
       /\ pc = "done" => result = "ok"
  /\ ( prev.ran /\ pc # "clean" ) =>
       /\ prev.log = << >>
       /\ candidates = prev.candidates
       /\ pc # "clean_dirty" /\ candidates # << >> =>
            candidates_with_dirty = prev.candidates_with_dirty
       /\ \A k \in Removals : \E i \in DOMAIN prev.candidates_with_dirty :
            prev.candidates_with_dirty[i] = << worktrees[CHOOSE j \in DOMAIN worktrees :
                                                 worktrees[j].path = log[k].path], FALSE >>

\* The real run after a preview that listed a clean and a dirty worktree
\* has removed the clean one.
C25_Witness ==
  /\ prev.ran
  /\ pc = "done"
  /\ RemovalsOk # {}
  /\ \E i \in DOMAIN prev.candidates_with_dirty : prev.candidates_with_dirty[i][2]
  /\ \E i \in DOMAIN prev.candidates_with_dirty : ~ prev.candidates_with_dirty[i][2]

\* ------------------------------------- claims about subprocesses in flight
MutatingChildren == { c \in children : c.cmd \in Mutating }
AggregationRunning == pc = "statuses_par"
LastExit == log[Len(log)]

\* C22: in clean and in sync at most one removal, rebase or rebase-abort
\* is running at any moment; the one that runs belongs to the worktree the
\* loop is at, and has been started only after every earlier one has
\* exited (an abort, after the rebase of its own worktree has exited
\* non-zero); and none runs while the status aggregation is running.
C22_OneMutationAtATime ==
  /\ Cardinality(MutatingChildren) <= 1
  /\ AggregationRunning => MutatingChildren = {}
  /\ \A c \in MutatingChildren :
       /\ \A i \in DOMAIN agg.slots : agg.slots[i] # None
       /\ c = Unwrap(ret)
       /\ c.cmd = "remove" =>
            pc = "clean_removing" /\ c.path = clean_candidates[idx].path
       /\ c.cmd = "rebase" =>
            pc = "sync_rebase" /\ c.path = CurrentPair[1].path
       /\ c.cmd = "rebase_abort" =>
            /\ pc = "sync_aborting" /\ c.path = CurrentPair[1].path
            /\ log # << >> /\ LastExit = [ cmd |-> "rebase", path |-> c.path,
                                          outcome |-> "conflict" ]
       /\ \A k \in DOMAIN log : log[k].path = c.path => log[k].cmd # c.cmd

\* sync has rebased one worktree and is waiting for the rebase of the
\* next; clean has removed one worktree and is waiting for the removal of
\* the next.
C22_Witness ==
  /\ MutatingChildren # {}
  /\ idx = 2
  /\ \E k \in DOMAIN log : log[k].cmd \in Mutating /\ log[k].outcome = "ok"

====
